---- MODULE Spec2Model ----
(***************************************************************************)
(* Model of the photo ingestion pipeline (routes/photos.py,                *)
(* services/photo_upload.py, services/photo_processor.py,                  *)
(* services/azure_blob_photo.py) and of the export job subsystem           *)
(* (models/export.py, services/export_service.py).                         *)
(*                                                                         *)
(* SpecIngest is the upload routes and the ingestion worker, SpecRecords   *)
(* adds the route that rewrites the coordinates of a stored record,        *)
(* SpecExport is the export service, SpecQueues is both services.          *)
(* SpecIngestFair is SpecIngest with the worker running (weak fairness of *)
(* its steps).  SpecUpload is PhotoUploadService called on one file: EXIF *)
(* extraction by the two tag readers and process_upload.                   *)
(* SpecExportFair is SpecExport with the export task running.              *)
(* SpecNormalize is the worker's image conversion and thumbnail decision   *)
(* on one file, SpecArchive the photo entries of a KMZ and of a ZIP,       *)
(* SpecKml the folders of a KML document, SpecFilename the filename        *)
(* sanitizers on one filename.                                             *)
(*                                                                         *)
(* Both subsystems run as cooperative asyncio tasks on one event loop: a   *)
(* handler runs without interruption from one suspension point to the     *)
(* next.  An action of this module is one such uninterrupted stretch.      *)
(* Suspension points are asyncio.sleep, asyncio.wait_for and the awaited   *)
(* calls of the persistence port (DatabaseService, an abstract async       *)
(* interface).  Blocking calls (requests.get, file and zip writes) do not  *)
(* suspend.                                                                *)
(***************************************************************************)
EXTENDS Integers, Sequences, FiniteSets, TLC

(***************************************************************************)
(* Bounds of the model.                                                    *)
(***************************************************************************)
MaxUploads == 3

MaxExportJobs == 2

(* longest filename given to the sanitizers *)
MaxNameLen == 3

(***************************************************************************)
(* Program constants.                                                      *)
(***************************************************************************)
max_retries == 3

(* ExportService.__init__: max_concurrent_jobs, the size of its executor *)
max_concurrent_jobs == 3

(* PhotoUploadService.__init__: max_file_size, in bytes *)
max_file_size == 50 * 1024 * 1024

(* PhotoUploadService.__init__: the keys of supported_formats *)
supported_formats ==
    {"image/jpeg", "image/png", "image/tiff", "image/heic", "application/octet-stream"}

(* content hashes of the submitted files (hash_md5) *)
Hashes == {"h1", "h2"}

(* A float is kept as an exact fraction num/den, den > 0. *)
Frac(n, d) == [num |-> n, den |-> d]

FracEq(a, b) == a.num * b.den = b.num * a.den

FracLe(a, b) == a.num * b.den <= b.num * a.den

FracAdd(a, b) == Frac(a.num * b.den + b.num * a.den, a.den * b.den)

(* a / n for a positive integer n *)
FracDiv(a, n) == Frac(a.num, a.den * n)

FracNeg(a) == Frac(-a.num, a.den)

(* a whole number of degrees *)
Deg(n) == Frac(n, 1)

(* Python None where a float or a dict is expected; where a string is     *)
(* expected None is the string "None".                                     *)
None == <<>>

(* bool(x) of an Optional[float]: None and 0.0 are falsy *)
Truthy(x) == x # None /\ x.num # 0

(* A pair of coordinates is <<latitude, longitude>>, in decimal degrees;  *)
(* no pair is None.                                                        *)
NoCoordinates == None

(* The dict extract_exif_data returns.  keys is FALSE for the empty dict  *)
(* {} (both readers raised): it has none of the keys.                      *)
ExifData(latitude, longitude, camera_make, camera_settings, datetime_taken) ==
    [keys |-> TRUE, latitude |-> latitude, longitude |-> longitude,
     camera_make |-> camera_make, camera_settings |-> camera_settings,
     datetime_taken |-> datetime_taken]

EmptyDict ==
    [keys |-> FALSE, latitude |-> None, longitude |-> None,
     camera_make |-> "None", camera_settings |-> "None",
     datetime_taken |-> "None"]

(* EXIF with a GPS position and a capture time / with a capture time only *)
ExifAt(latitude, longitude) ==
    ExifData(Deg(latitude), Deg(longitude), "Canon", "f/2.8", "exif_time")

ExifNoGps == ExifData(None, None, "Canon", "f/2.8", "exif_time")

(* An upload request: the file (its content hash, size, declared type,    *)
(* whether PIL can open it, the exif_data that extract_exif_data returns  *)
(* for it) and the coordinates of the form fields of /upload-manual (None *)
(* for /upload).                                                           *)
Submission(h, file_size, content_type, corrupt, exif, manual) ==
    [hash_md5 |-> h, file_size |-> file_size, content_type |-> content_type,
     corrupt |-> corrupt, exif |-> exif, manual |-> manual]

(* The requests made: two that pass validation (a JPEG with an EXIF       *)
(* position, a JPEG without one sent with manual coordinates on the edge  *)
(* of the range) and six that do not.                                      *)
Submissions ==
    {Submission("h1", 1000, "image/jpeg", FALSE, ExifAt(40, -74), NoCoordinates),
     Submission("h2", 1000, "image/jpeg", FALSE, ExifNoGps, <<Deg(-90), Deg(180)>>),
     Submission("h1", 1000, "image/jpeg", FALSE, ExifAt(40, -74), <<Deg(95), Deg(0)>>),
     Submission("h2", 1000, "image/jpeg", FALSE, ExifNoGps, <<Deg(0), Deg(-181)>>),
     Submission("h2", 1000, "image/jpeg", FALSE, ExifNoGps, NoCoordinates),
     Submission("h1", max_file_size + 1, "image/jpeg", FALSE, ExifAt(40, -74), NoCoordinates),
     Submission("h1", 1000, "image/gif", FALSE, ExifAt(40, -74), NoCoordinates),
     Submission("h2", 1000, "image/png", TRUE, ExifNoGps, <<Deg(40), Deg(-74)>>)}

(* The coordinates a later update request may carry: one pair out of      *)
(* range and one on the edge of the range.                                 *)
UpdateCoordinates == {<<Deg(95), Deg(0)>>, <<Deg(-90), Deg(180)>>}

IngestIds == 1..MaxUploads

NoJob == 0

VARIABLES
    (* ---- ingestion: PhotoProcessor and the photo collection ---- *)
    pjobs,             \* job dicts by job id: status, retry_count, hash_md5 (+ counters)
    n_pjobs,           \* number of job dicts created so far
    processing_queue,  \* PhotoProcessor.processing_queue (asyncio.Queue, FIFO)
    worker,            \* position of start_processing / _process_photo_job
    photo_records,     \* the photo collection, in insertion order
    responses,         \* what upload_photo returned, in submission order
    (* ---- export: ExportService ---- *)
    ejobs,             \* ExportJob objects by id
    n_ejobs,           \* number of ExportJob objects created so far
    active_jobs,       \* keys of ExportService.active_jobs
    job_queue,         \* ExportService.job_queue (asyncio.Queue of job ids)
    consumer,          \* position of _process_job_queue / _process_export_job
    db_photos,         \* photo ids that resolve in the persistence port
    files,             \* the temporary output files on disk, by the id of their job
    (* ---- PhotoUploadService, called on one file ---- *)
    upload,            \* the file and form fields, and what the service returned
    (* ---- steps 1 and 3 of _process_photo_job, on one payload ---- *)
    normalize,         \* the payload, and what _convert_image_format returned
    (* ---- the KML and archive generators, on one list of photos ---- *)
    archive            \* the photos, and what the generators wrote

ingest_vars == <<pjobs, n_pjobs, processing_queue, worker, photo_records, responses>>

export_vars == <<ejobs, n_ejobs, active_jobs, job_queue, consumer, db_photos, files>>

vars == <<pjobs, n_pjobs, processing_queue, worker, photo_records, responses,
          ejobs, n_ejobs, active_jobs, job_queue, consumer, db_photos, files,
          upload, normalize, archive>>

(* The services that are called on one input of their own. *)
unit_vars == <<upload, normalize, archive>>

(***************************************************************************)
(* Helpers on sequences.                                                   *)
(***************************************************************************)
Range(s) == {s[i] : i \in DOMAIN s}

(***************************************************************************)
(*                              INGESTION                                  *)
(***************************************************************************)

(* A job dict that has not been created yet. *)
AbsentJob ==
    [status |-> "absent", retry_count |-> 0, hash_md5 |-> "h1",
     latitude |-> Deg(0), longitude |-> Deg(0),
     coordinate_source |-> "none", timestamp |-> "None",
     attempts |-> 0, failures |-> 0, deletes |-> 0, upload_errors |-> 0,
     blob |-> FALSE]

(* queue_photo_for_processing: the job dict put on the queue, with the    *)
(* photo_data of process_upload.                                           *)
NewJob(photo_data) ==
    [status |-> "pending", retry_count |-> 0, hash_md5 |-> photo_data.hash_md5,
     latitude |-> photo_data.latitude, longitude |-> photo_data.longitude,
     coordinate_source |-> photo_data.coordinate_source,
     timestamp |-> photo_data.timestamp,
     attempts |-> 0, failures |-> 0, deletes |-> 0, upload_errors |-> 0,
     blob |-> FALSE]

(* PhotoUploadService.validate_file: "valid", or the ValueError raised. *)
validate_file(sub) ==
    IF sub.file_size > max_file_size THEN "File size exceeds maximum"
    ELSE IF sub.content_type \notin supported_formats THEN "Unsupported file type"
    ELSE IF sub.corrupt THEN "Invalid or corrupted image file"
    ELSE "valid"

(* Variant of validate_coordinates: only the latitude is checked. *)
validate_coordinates_latitude_only(latitude, longitude) ==
    IF ~(FracLe(Deg(-90), latitude) /\ FracLe(latitude, Deg(90)))
    THEN "Latitude is out of valid range"
    ELSE "valid"

(* PhotoUploadService.validate_coordinates: "valid", or the ValueError    *)
(* raised.                                                                 *)
validate_coordinates(latitude, longitude) ==
    IF ~(FracLe(Deg(-90), latitude) /\ FracLe(latitude, Deg(90)))
    THEN "Latitude is out of valid range"
    ELSE IF ~(FracLe(Deg(-180), longitude) /\ FracLe(longitude, Deg(180)))
    THEN "Longitude is out of valid range"
    ELSE "valid"

(* process_upload, "Determine coordinates": manual coordinates override   *)
(* EXIF; an EXIF position counts only if both of its values are truthy    *)
(* (not None and not 0.0).                                                 *)
determine_coordinates(sub) ==
    IF sub.manual # None THEN sub.manual
    ELSE IF Truthy(sub.exif.latitude) /\ Truthy(sub.exif.longitude)
    THEN <<sub.exif.latitude, sub.exif.longitude>>
    ELSE NoCoordinates

(* process_upload: coordinate_source, set in the branch that sets the     *)
(* coordinates.                                                            *)
coordinate_source(sub) ==
    IF sub.manual # None THEN "manual"
    ELSE IF Truthy(sub.exif.latitude) /\ Truthy(sub.exif.longitude) THEN "exif"
    ELSE "none"

(* process_upload: exif_data.get('datetime_taken', timestamp), where      *)
(* timestamp is datetime.utcnow(): the default is used only if the key is *)
(* missing.                                                                *)
payload_timestamp(exif_data) ==
    IF exif_data.keys THEN exif_data.datetime_taken ELSE "upload_time"

(* PhotoUploadService.process_upload: the photo_data it returns, or the   *)
(* ValueError it raises.                                                   *)
process_upload(sub) ==
    LET coordinates == determine_coordinates(sub)
        raised(e) == [error |-> e, hash_md5 |-> "",
                      latitude |-> Deg(0), longitude |-> Deg(0),
                      coordinate_source |-> "none", timestamp |-> "None"]
    IN  IF validate_file(sub) # "valid" THEN raised(validate_file(sub))
        ELSE IF coordinates = NoCoordinates
        THEN raised("No valid GPS coordinates found")
        ELSE IF validate_coordinates(coordinates[1], coordinates[2]) # "valid"
        THEN raised(validate_coordinates(coordinates[1], coordinates[2]))
        ELSE [error |-> "", hash_md5 |-> sub.hash_md5,
              latitude |-> coordinates[1], longitude |-> coordinates[2],
              coordinate_source |-> coordinate_source(sub),
              timestamp |-> payload_timestamp(sub.exif)]

(* Variant of get_photos_by_hash: no record is ever found. *)
get_photos_by_hash_none(h) == <<>>

(* MongoPhotoService.get_photos_by_hash: the records with that hash, in   *)
(* collection order.                                                       *)
get_photos_by_hash(h) == SelectSeq(photo_records, LAMBDA r : r.hash_md5 = h)

(* upload_photo / upload_photo_manual_coordinates: a ValueError of        *)
(* process_upload is answered with HTTP 400 and nothing else happens;     *)
(* otherwise the duplicate check reads the photo collection, and only a   *)
(* miss enqueues a job.                                                    *)
upload_photo(sub) ==
    /\ Len(responses) < MaxUploads
    /\ LET photo_data == process_upload(sub)
           h == photo_data.hash_md5
           existing_photos == get_photos_by_hash(h)
       IN
       IF photo_data.error # ""
       THEN /\ responses' = Append(responses,
                   [status |-> "error", hash_md5 |-> "",
                    photo_id |-> NoJob, job_id |-> NoJob])
            /\ UNCHANGED <<pjobs, n_pjobs, processing_queue>>
       ELSE IF existing_photos # <<>>
       THEN /\ responses' = Append(responses,
                   [status |-> "duplicate", hash_md5 |-> h,
                    photo_id |-> existing_photos[1].id, job_id |-> NoJob])
            /\ UNCHANGED <<pjobs, n_pjobs, processing_queue>>
       ELSE LET job_id == n_pjobs + 1 IN
            /\ pjobs' = [pjobs EXCEPT ![job_id] = NewJob(photo_data)]
            /\ n_pjobs' = job_id
            /\ processing_queue' = Append(processing_queue, job_id)
            /\ responses' = Append(responses,
                   [status |-> "queued", hash_md5 |-> h,
                    photo_id |-> NoJob, job_id |-> job_id])
    /\ UNCHANGED <<worker, photo_records>>
    /\ UNCHANGED <<export_vars, unit_vars>>

(* Variant of may_retry: an off-by-one in the comparison. *)
may_retry_off_by_one(retry_count) == retry_count <= max_retries

(* The retry test of the except branch of _process_photo_job. *)
may_retry(retry_count) == retry_count < max_retries

(* The except branch of _process_photo_job for job j, whose dict is jb    *)
(* when the exception is caught: count the failure, then either back off  *)
(* for a retry or fail for good and delete the job's blobs.                *)
handle_failure(j, jb) ==
    LET rc == jb.retry_count + 1 IN
    IF may_retry(rc)
    THEN /\ pjobs' = [pjobs EXCEPT ![j] =
                 [jb EXCEPT !.retry_count = rc, !.failures = @ + 1,
                            !.status = "retry"]]
         /\ worker' = [pc |-> "backoff", job |-> j]
    ELSE /\ pjobs' = [pjobs EXCEPT ![j] =
                 [jb EXCEPT !.retry_count = rc, !.failures = @ + 1,
                            !.status = "failed",
                            !.deletes = @ + 1, !.blob = FALSE]]
         /\ worker' = [pc |-> "idle", job |-> NoJob]

(* Step 2 of _process_photo_job raises: the coordinates of the payload   *)
(* are validated again, but only if both are truthy.                       *)
step2_raises(jb) ==
    /\ Truthy(jb.latitude)
    /\ Truthy(jb.longitude)
    /\ validate_coordinates(jb.latitude, jb.longitude) # "valid"

(* Variant of worker_get: the job is not marked processing. *)
worker_get_unmarked ==
    /\ worker.pc = "idle"
    /\ processing_queue # <<>>
    /\ LET j == Head(processing_queue)
           jb == [pjobs[j] EXCEPT !.attempts = @ + 1]
       IN
       /\ processing_queue' = Tail(processing_queue)
       /\ IF step2_raises(jb)
          THEN handle_failure(j, jb)
          ELSE /\ pjobs' = [pjobs EXCEPT ![j] = jb]
               /\ worker' = [pc |-> "upload", job |-> j]
    /\ UNCHANGED <<n_pjobs, photo_records, responses>>
    /\ UNCHANGED <<export_vars, unit_vars>>

(* Variant of worker_get: the job queued last is taken first. *)
worker_get_newest ==
    /\ worker.pc = "idle"
    /\ processing_queue # <<>>
    /\ LET n == Len(processing_queue)
           j == processing_queue[n]
           jb == [pjobs[j] EXCEPT !.status = "processing", !.attempts = @ + 1]
       IN
       /\ processing_queue' = SubSeq(processing_queue, 1, n - 1)
       /\ IF step2_raises(jb)
          THEN handle_failure(j, jb)
          ELSE /\ pjobs' = [pjobs EXCEPT ![j] = jb]
               /\ worker' = [pc |-> "upload", job |-> j]
    /\ UNCHANGED <<n_pjobs, photo_records, responses>>
    /\ UNCHANGED <<export_vars, unit_vars>>

(* Variant of worker_get: the next job is taken also while a failed job   *)
(* waits for its retry.                                                    *)
worker_get_during_backoff ==
    /\ worker.pc \in {"idle", "backoff"}
    /\ processing_queue # <<>>
    /\ LET j == Head(processing_queue)
           jb == [pjobs[j] EXCEPT !.status = "processing", !.attempts = @ + 1]
       IN
       /\ processing_queue' = Tail(processing_queue)
       /\ IF step2_raises(jb)
          THEN handle_failure(j, jb)
          ELSE /\ pjobs' = [pjobs EXCEPT ![j] = jb]
               /\ worker' = [pc |-> "upload", job |-> j]
    /\ UNCHANGED <<n_pjobs, photo_records, responses>>
    /\ UNCHANGED <<export_vars, unit_vars>>

(* start_processing: the single consumer takes the next job;              *)
(* _process_photo_job marks it processing, normalizes the payload,        *)
(* validates its coordinates (step 2) and suspends in asyncio.wait_for on *)
(* the blob upload.                                                        *)
worker_get ==
    /\ worker.pc = "idle"
    /\ processing_queue # <<>>
    /\ LET j == Head(processing_queue)
           jb == [pjobs[j] EXCEPT !.status = "processing", !.attempts = @ + 1]
       IN
       /\ processing_queue' = Tail(processing_queue)
       /\ IF step2_raises(jb)
          THEN handle_failure(j, jb)
          ELSE /\ pjobs' = [pjobs EXCEPT ![j] = jb]
               /\ worker' = [pc |-> "upload", job |-> j]
    /\ UNCHANGED <<n_pjobs, photo_records, responses>>
    /\ UNCHANGED <<export_vars, unit_vars>>

(* Variant of cleanup_failed_upload: the failed upload is not cleaned up. *)
cleanup_failed_upload_skipped(jb) == [jb EXCEPT !.upload_errors = @ + 1]

(* AzureBlobPhotoManager.upload_photo_with_thumbnail raised: its own      *)
(* except branch runs _cleanup_failed_upload, which calls                 *)
(* delete_photo_and_thumbnails, and re-raises.                             *)
cleanup_failed_upload(jb) ==
    [jb EXCEPT !.upload_errors = @ + 1, !.deletes = @ + 1, !.blob = FALSE]

(* The blob upload ends: it returns, it raises, or wait_for times out     *)
(* (the upload coroutine is cancelled, which its except Exception does    *)
(* not catch).  With a timestamp of None it raises at once, in            *)
(* _get_photo_blob_path (timestamp.strftime).                              *)
upload_done(outcome) ==
    /\ worker.pc = "upload"
    /\ pjobs[worker.job].timestamp = "None" => outcome = "error"
    /\ LET j == worker.job IN
       CASE outcome = "ok" ->
              /\ pjobs' = [pjobs EXCEPT ![j].blob = TRUE]
              /\ worker' = [worker EXCEPT !.pc = "persist"]
         [] outcome = "error" ->
              handle_failure(j, cleanup_failed_upload(pjobs[j]))
         [] outcome = "timeout" ->
              handle_failure(j, pjobs[j])
    /\ UNCHANGED <<n_pjobs, processing_queue, photo_records, responses>>
    /\ UNCHANGED <<export_vars, unit_vars>>

(* Variant of persist_done: the record is stored also when create_photo   *)
(* raises.                                                                 *)
persist_done_record_kept(ok) ==
    /\ worker.pc = "persist"
    /\ LET j == worker.job IN
       /\ photo_records' = Append(photo_records,
              [id |-> j, hash_md5 |-> pjobs[j].hash_md5,
               latitude |-> pjobs[j].latitude,
               longitude |-> pjobs[j].longitude])
       /\ IF ok
          THEN /\ pjobs' = [pjobs EXCEPT ![j].status = "completed"]
               /\ worker' = [pc |-> "idle", job |-> NoJob]
          ELSE handle_failure(j, pjobs[j])
    /\ UNCHANGED <<n_pjobs, processing_queue, responses>>
    /\ UNCHANGED <<export_vars, unit_vars>>

(* Steps 4 and 5: build the Photo and await create_photo; on success the  *)
(* job is completed, on an exception the except branch runs.              *)
persist_done(ok) ==
    /\ worker.pc = "persist"
    /\ LET j == worker.job IN
       IF ok
       THEN /\ photo_records' = Append(photo_records,
                   [id |-> j, hash_md5 |-> pjobs[j].hash_md5,
                    latitude |-> pjobs[j].latitude,
                    longitude |-> pjobs[j].longitude])
            /\ pjobs' = [pjobs EXCEPT ![j].status = "completed"]
            /\ worker' = [pc |-> "idle", job |-> NoJob]
       ELSE /\ handle_failure(j, pjobs[j])
            /\ UNCHANGED photo_records
    /\ UNCHANGED <<n_pjobs, processing_queue, responses>>
    /\ UNCHANGED <<export_vars, unit_vars>>

(* Variant of backoff_done: the job is not put back on the queue. *)
backoff_done_dropped ==
    /\ worker.pc = "backoff"
    /\ worker' = [pc |-> "idle", job |-> NoJob]
    /\ UNCHANGED <<pjobs, n_pjobs, processing_queue, photo_records, responses>>
    /\ UNCHANGED <<export_vars, unit_vars>>

(* asyncio.sleep(retry_delay * retry_count) returns: the job dict is put  *)
(* back on the queue as it is, and the worker loops.                       *)
backoff_done ==
    /\ worker.pc = "backoff"
    /\ processing_queue' = Append(processing_queue, worker.job)
    /\ worker' = [pc |-> "idle", job |-> NoJob]
    /\ UNCHANGED <<pjobs, n_pjobs, photo_records, responses>>
    /\ UNCHANGED <<export_vars, unit_vars>>

(* update_photo_coordinates: update_photo sets latitude and longitude of *)
(* the record with that id (HTTP 404 if there is none); the values are    *)
(* stored as they were sent.                                               *)
update_photo_coordinates(photo_id, latitude, longitude) ==
    /\ \E i \in DOMAIN photo_records : photo_records[i].id = photo_id
    /\ photo_records' = [i \in DOMAIN photo_records |->
           IF photo_records[i].id = photo_id
           THEN [photo_records[i] EXCEPT !.latitude = latitude,
                                         !.longitude = longitude]
           ELSE photo_records[i]]
    /\ UNCHANGED <<pjobs, n_pjobs, processing_queue, worker, responses>>
    /\ UNCHANGED <<export_vars, unit_vars>>

(***************************************************************************)
(*                     UPLOAD SERVICE: EXIF EXTRACTION                     *)
(***************************************************************************)

(* A GPS coordinate of the EXIF block: the tag with degrees, minutes and  *)
(* seconds (three rationals) and its hemisphere reference tag.  NoTag: the *)
(* file lacks one of the two.                                              *)
NoTag == None

GpsTag(d, m, sec, ref) == [dms |-> <<Deg(d), Deg(m), Deg(sec)>>, ref |-> ref]

LatitudeTags ==
    {NoTag, GpsTag(0, 0, 0, "N"), GpsTag(40, 30, 0, "N"), GpsTag(40, 30, 0, "S"),
     GpsTag(95, 0, 0, "N")}

LongitudeTags == {NoTag, GpsTag(0, 0, 0, "E"), GpsTag(74, 0, 36, "W")}

(* The files extract_exif_data is called on: the tags of the EXIF block   *)
(* and what each of the two tag readers makes of the file.                *)
(*   pil:      "exif"       image._getexif() returns the tags             *)
(*             "gps_error"  it does, and _parse_gps_coordinates raises    *)
(*             "no_exif"    the image has no _getexif or it returns None  *)
(*             "raises"     _extract_exif_pil raises                      *)
(*   exifread: "exif"       process_file returns the tags                 *)
(*             "other_decoding"  it does, and decodes the bytes of the    *)
(*                          Make tag to another string than PIL does      *)
(*             "raises"     _extract_exif_exifread raises                 *)
Files ==
    [GPSLatitude : LatitudeTags, GPSLongitude : LongitudeTags,
     Make : {"None", "Canon"}, FNumber : {"None", "f/2.8"},
     DateTimeOriginal : {"None", "exif_time"},
     pil : {"exif", "gps_error", "no_exif", "raises"},
     exifread : {"exif", "other_decoding", "raises"}]

(* The form fields of /upload-manual (None for /upload). *)
ManualCoordinates == {None, <<Deg(0), Deg(0)>>, <<Deg(10), Deg(20)>>, <<Deg(95), Deg(0)>>}

(* float(deg) + float(min)/60 + float(sec)/3600 *)
dms_to_decimal(dms) ==
    FracAdd(FracAdd(dms[1], FracDiv(dms[2], 60)), FracDiv(dms[3], 3600))

(* Variant of parse_gps_coordinates: the hemisphere is ignored. *)
parse_gps_coordinates_unsigned(gps_data) ==
    [latitude |-> IF gps_data.GPSLatitude = NoTag THEN None
                  ELSE dms_to_decimal(gps_data.GPSLatitude.dms),
     longitude |-> IF gps_data.GPSLongitude = NoTag THEN None
                   ELSE dms_to_decimal(gps_data.GPSLongitude.dms)]

(* PhotoUploadService._parse_gps_coordinates (latitude and longitude) *)
parse_gps_coordinates(gps_data) ==
    [latitude |->
        IF gps_data.GPSLatitude = NoTag THEN None
        ELSE LET latitude == dms_to_decimal(gps_data.GPSLatitude.dms) IN
             IF gps_data.GPSLatitude.ref = "S" THEN FracNeg(latitude) ELSE latitude,
     longitude |->
        IF gps_data.GPSLongitude = NoTag THEN None
        ELSE LET longitude == dms_to_decimal(gps_data.GPSLongitude.dms) IN
             IF gps_data.GPSLongitude.ref = "W" THEN FracNeg(longitude) ELSE longitude]

(* PhotoUploadService._convert_to_degrees: d + (m / 60.0) + (s / 3600.0)  *)
(* of the three ratios of the tag.                                         *)
convert_to_degrees(value) ==
    LET d == value[1]
        m == value[2]
        sec == value[3]
    IN  FracAdd(FracAdd(d, FracDiv(m, 60)), FracDiv(sec, 3600))

(* PhotoUploadService._extract_exif_pil *)
extract_exif_pil(file) ==
    CASE file.pil = "raises" -> EmptyDict
      [] file.pil = "no_exif" -> ExifData(None, None, "None", "None", "None")
      [] file.pil = "gps_error" ->
           ExifData(None, None, file.Make, file.FNumber, file.DateTimeOriginal)
      [] file.pil = "exif" ->
           LET gps == parse_gps_coordinates(file) IN
           ExifData(gps.latitude, gps.longitude, file.Make, file.FNumber,
                    file.DateTimeOriginal)

(* str(tags['Image Make']) as exifread decodes it *)
exifread_printable(file) ==
    IF file.Make = "None" THEN "None"
    ELSE IF file.exifread = "other_decoding" THEN "Canon (exifread)"
    ELSE file.Make

(* PhotoUploadService._extract_exif_exifread: the dict it returns has no  *)
(* camera_settings key.                                                    *)
extract_exif_exifread(file) ==
    IF file.exifread = "raises" THEN EmptyDict
    ELSE LET lat_deg == convert_to_degrees(file.GPSLatitude.dms)
             lon_deg == convert_to_degrees(file.GPSLongitude.dms)
         IN  ExifData(
                 IF file.GPSLatitude = NoTag THEN None
                 ELSE IF Truthy(lat_deg) /\ file.GPSLatitude.ref = "S"
                 THEN FracNeg(lat_deg) ELSE lat_deg,
                 IF file.GPSLongitude = NoTag THEN None
                 ELSE IF Truthy(lon_deg) /\ file.GPSLongitude.ref = "W"
                 THEN FracNeg(lon_deg) ELSE lon_deg,
                 exifread_printable(file), "None", file.DateTimeOriginal)

(* exif_data.update(exifread_data): every key of exifread_data is set in  *)
(* exif_data; camera_settings is not one of them.                          *)
dict_update(exif_data, exifread_data) ==
    IF ~exifread_data.keys THEN exif_data
    ELSE [exifread_data EXCEPT !.camera_settings = exif_data.camera_settings]

(* extract_exif_data: exifread is called if PIL gave no (truthy) latitude *)
(* or longitude.                                                           *)
exifread_called(pil_data) == ~Truthy(pil_data.latitude) \/ ~Truthy(pil_data.longitude)

(* PhotoUploadService.extract_exif_data *)
extract_exif_data(file) ==
    LET pil_data == extract_exif_pil(file)
        exifread_data == extract_exif_exifread(file)
    IN  IF exifread_called(pil_data)
           /\ ~Truthy(pil_data.latitude) /\ Truthy(exifread_data.latitude)
        THEN dict_update(pil_data, exifread_data)
        ELSE pil_data

(* extract_exif_data is called on the file: what the two passes and the   *)
(* merge return (exifread_data is None if the second pass did not run).   *)
call_extract_exif_data ==
    /\ upload # None
    /\ upload.exif_data = None
    /\ upload' = [upload EXCEPT
           !.pil_data = extract_exif_pil(upload.file),
           !.exifread_data = IF exifread_called(extract_exif_pil(upload.file))
                             THEN extract_exif_exifread(upload.file)
                             ELSE None,
           !.exif_data = extract_exif_data(upload.file)]
    /\ UNCHANGED <<ingest_vars, export_vars, normalize, archive>>

(* process_upload is called on the file (a sound JPEG of 1000 bytes) and  *)
(* the form fields.                                                        *)
call_process_upload ==
    /\ upload # None
    /\ upload.photo_data = None
    /\ upload' = [upload EXCEPT !.photo_data =
           process_upload(Submission("h1", 1000, "image/jpeg", FALSE,
                                     extract_exif_data(upload.file),
                                     upload.manual_coordinates))]
    /\ UNCHANGED <<ingest_vars, export_vars, normalize, archive>>

(***************************************************************************)
(*              WORKER: IMAGE NORMALIZATION AND THUMBNAILS                 *)
(***************************************************************************)

(* _convert_image_format: "10MB+", the size above which an image that is  *)
(* not HEIC is optimized.                                                  *)
large_image_size == 10 * 1024 * 1024

(* _process_photo_job, step 3: "10MB limit" of thumbnail generation. *)
thumbnail_size_limit == 10 * 1024 * 1024

(* File contents: which bytes they are, and their length. *)
Content(data, size) == [data |-> data, size |-> size]

(* The payloads step 1 is run on: the file content (its length around the *)
(* 10 MB mark), its MIME type and filename, what Pillow does with the     *)
(* image if it is asked to (it opens and saves it, Image.open raises,     *)
(* image.save raises) and the length of the JPEG it would write.          *)
Payloads ==
    [size : {1000, 10 * 1024 * 1024 - 1, 10 * 1024 * 1024, 10 * 1024 * 1024 + 1},
     mime_type : {"image/jpeg", "image/heic", "image/heif", "application/octet-stream"},
     filename : {"photo.heic", "photo.jpg", "photo"},
     pillow : {"ok", "open_raises", "save_raises"},
     jpeg_size : {500, 10 * 1024 * 1024, 10 * 1024 * 1024 + 1}]

(* f"{name_without_ext}.jpg" *)
jpg_filename(filename) == "photo.jpg"

(* The dict _convert_image_format and _optimize_large_image return; error *)
(* is "None" if the dict has no such key.  raises: the call raised        *)
(* instead of returning.                                                   *)
ConversionResult(converted, content, mime_type, filename, error) ==
    [raises |-> FALSE, converted |-> converted, content |-> content,
     mime_type |-> mime_type, filename |-> filename, error |-> error]

(* What a call that raises leaves: no dict. *)
Raised(error) ==
    [raises |-> TRUE, converted |-> FALSE, content |-> Content("none", 0),
     mime_type |-> "None", filename |-> "None", error |-> error]

(* PhotoProcessor._optimize_large_image: the image is re-encoded as JPEG  *)
(* under its own filename; any exception gives back the inputs and the    *)
(* error.                                                                  *)
optimize_large_image(file_content, mime_type, filename, pillow, jpeg_size) ==
    IF pillow # "ok"
    THEN ConversionResult(FALSE, file_content, mime_type, filename, pillow)
    ELSE ConversionResult(TRUE, Content("optimized", jpeg_size), "image/jpeg",
                          filename, "None")

(* Variant of convert_image_format: an exception of Pillow is not caught. *)
convert_image_format_uncaught(file_content, mime_type, filename, pillow, jpeg_size) ==
    IF mime_type \notin {"image/heic", "image/heif"}
    THEN IF file_content.size > large_image_size
         THEN optimize_large_image(file_content, mime_type, filename, pillow, jpeg_size)
         ELSE ConversionResult(FALSE, file_content, mime_type, filename, "None")
    ELSE IF pillow # "ok"
    THEN Raised(pillow)
    ELSE ConversionResult(TRUE, Content("converted", jpeg_size), "image/jpeg",
                          jpg_filename(filename), "None")

(* PhotoProcessor._convert_image_format: HEIC and HEIF are converted to   *)
(* JPEG, another image above large_image_size is optimized, anything else *)
(* is returned as it is; any exception gives back the inputs and the      *)
(* error.                                                                  *)
convert_image_format(file_content, mime_type, filename, pillow, jpeg_size) ==
    IF mime_type \notin {"image/heic", "image/heif"}
    THEN IF file_content.size > large_image_size
         THEN optimize_large_image(file_content, mime_type, filename, pillow, jpeg_size)
         ELSE ConversionResult(FALSE, file_content, mime_type, filename, "None")
    ELSE IF pillow # "ok"
    THEN ConversionResult(FALSE, file_content, mime_type, filename, pillow)
    ELSE ConversionResult(TRUE, Content("converted", jpeg_size), "image/jpeg",
                          jpg_filename(filename), "None")

(* _process_photo_job, step 1: photo_data takes the content, MIME type    *)
(* and filename of the result if it says converted; an exception would    *)
(* end the attempt in the except branch.                                   *)
step1_convert_image_format ==
    /\ normalize # None
    /\ normalize.pc = "step1"
    /\ LET photo_data == normalize.photo_data
           processed_content ==
               convert_image_format(photo_data.file_content, photo_data.mime_type,
                                    photo_data.filename, normalize.pillow,
                                    normalize.jpeg_size)
       IN  normalize' = [normalize EXCEPT
               !.processed_content = processed_content,
               !.photo_data =
                   IF ~processed_content.raises /\ processed_content.converted
                   THEN [file_content |-> processed_content.content,
                         mime_type |-> processed_content.mime_type,
                         filename |-> processed_content.filename]
                   ELSE @,
               !.pc = IF processed_content.raises THEN "except" ELSE "step3"]
    /\ UNCHANGED <<ingest_vars, export_vars, upload, archive>>

(* _process_photo_job, step 3:                                            *)
(* generate_thumbnails = len(photo_data['file_content']) < 10 MB          *)
generate_thumbnails(file_content) == file_content.size < thumbnail_size_limit

(* _process_photo_job, step 3: the blob upload is started, with or        *)
(* without thumbnails.                                                     *)
step3_upload ==
    /\ normalize # None
    /\ normalize.pc = "step3"
    /\ normalize' = [normalize EXCEPT
           !.generate_thumbnails = generate_thumbnails(normalize.photo_data.file_content),
           !.pc = "upload"]
    /\ UNCHANGED <<ingest_vars, export_vars, upload, archive>>

(***************************************************************************)
(*                                EXPORT                                   *)
(***************************************************************************)

(* ids of the stored photo records; db_photos holds those that still      *)
(* resolve                                                                 *)
PhotoIds == {"p1", "p2"}

(* ExportFormat *)
ExportFormats == {"kml", "kmz", "zip", "photos"}

ExportIds == 1..MaxExportJobs

(* file_path = None *)
NoPath == 0

(* Requested photo id lists: one id, or three ids of which "p3" was never *)
(* stored (it resolves in no state).                                       *)
Requests == {<<"p1">>, <<"p2", "p3", "p1">>}

(* export_type with include_photos_in_kmz, which only the KMZ and the ZIP *)
(* generator read (default True).                                          *)
ExportOptions ==
    {<<t, TRUE>> : t \in ExportFormats} \cup {<<"kmz", FALSE>>, <<"zip", FALSE>>}

(* An ExportJob object that has not been created yet. *)
AbsentExport ==
    [status |-> "absent", export_type |-> "kml", photo_ids |-> <<>>,
     include_photos_in_kmz |-> TRUE, total_photos |-> 0, processed_photos |-> 0,
     progress |-> Frac(0, 1), file_path |-> NoPath, error_message |-> "",
     expired |-> FALSE]

(* ExportJob.__init__: status pending, total_photos = len(photo_ids),     *)
(* progress 0.0, no file.                                                  *)
ExportJob(photo_ids, export_type, include_photos) ==
    [status |-> "pending", export_type |-> export_type, photo_ids |-> photo_ids,
     include_photos_in_kmz |-> include_photos,
     total_photos |-> Len(photo_ids), processed_photos |-> 0,
     progress |-> Frac(0, 1), file_path |-> NoPath, error_message |-> "",
     expired |-> FALSE]

(* The consumer between two jobs, waiting in job_queue.get(). *)
IdleConsumer == [pc |-> "idle", job |-> NoJob, photos |-> <<>>, idx |-> 0]

(* os.path.exists(job.file_path) *)
file_exists(job_id) ==
    /\ job_id \in ExportIds
    /\ ejobs[job_id].file_path # NoPath
    /\ ejobs[job_id].file_path \in DOMAIN files

(* ExportJob.update_progress *)
update_progress(job, processed_count) ==
    [job EXCEPT !.processed_photos = processed_count,
                !.progress = IF job.total_photos > 0
                             THEN Frac(100 * processed_count, job.total_photos)
                             ELSE @]

(* ExportJob.mark_started *)
mark_started(job) == [job EXCEPT !.status = "processing"]

(* ExportJob.mark_completed *)
mark_completed(job, file_path) ==
    [job EXCEPT !.status = "completed", !.file_path = file_path,
                !.progress = Frac(100, 1)]

(* Variant of mark_failed: the message is not recorded. *)
mark_failed_without_message(job, error_message) == [job EXCEPT !.status = "failed"]

(* ExportJob.mark_failed *)
mark_failed(job, error_message) ==
    [job EXCEPT !.status = "failed", !.error_message = error_message]

(* Variant of validate_photo_ids: every requested id is kept. *)
validate_photo_ids_unfiltered(photo_ids) == photo_ids

(* ExportService._validate_photo_ids: the requested ids that resolve, in  *)
(* request order.                                                          *)
validate_photo_ids(photo_ids) == SelectSeq(photo_ids, LAMBDA p : p \in db_photos)

(* ExportService.create_export_job: what it returns, or the error it     *)
(* raises.                                                                 *)
create_export_job_result(photo_ids) ==
    IF validate_photo_ids(photo_ids) = <<>> THEN "ValueError" ELSE "ExportJob"

(* Variant of create_export_job: the job is stored and enqueued even when *)
(* no requested id resolves.                                               *)
create_export_job_unchecked(photo_ids, export_type, include_photos) ==
    /\ n_ejobs < MaxExportJobs
    /\ LET valid_photo_ids == validate_photo_ids(photo_ids)
           id == n_ejobs + 1
       IN  /\ ejobs' = [ejobs EXCEPT ![id] =
                   ExportJob(valid_photo_ids, export_type, include_photos)]
           /\ n_ejobs' = id
           /\ active_jobs' = active_jobs \cup {id}
           /\ job_queue' = Append(job_queue, id)
    /\ UNCHANGED <<consumer, db_photos, files>>
    /\ UNCHANGED <<ingest_vars, unit_vars>>

(* ExportService.create_export_job: with no valid id it raises before     *)
(* anything is stored; otherwise the job is stored and its id enqueued.   *)
create_export_job(photo_ids, export_type, include_photos) ==
    /\ n_ejobs < MaxExportJobs
    /\ LET valid_photo_ids == validate_photo_ids(photo_ids)
           id == n_ejobs + 1
       IN  IF valid_photo_ids = <<>>
           THEN UNCHANGED <<ejobs, n_ejobs, active_jobs, job_queue>>
           ELSE /\ ejobs' = [ejobs EXCEPT ![id] =
                        ExportJob(valid_photo_ids, export_type, include_photos)]
                /\ n_ejobs' = id
                /\ active_jobs' = active_jobs \cup {id}
                /\ job_queue' = Append(job_queue, id)
    /\ UNCHANGED <<consumer, db_photos, files>>
    /\ UNCHANGED <<ingest_vars, unit_vars>>

(* Variant of Cancellable: a completed job can be cancelled too. *)
Cancellable_with_completed == {"pending", "queued", "processing", "completed"}

(* The statuses cancel_job accepts. *)
Cancellable == {"pending", "queued", "processing"}

(* ExportService.get_job_status: active_jobs.get(job_id) *)
get_job_status(job_id) == IF job_id \in active_jobs THEN ejobs[job_id] ELSE None

(* Variant of cancel_job_result: the job object is used whether or not it *)
(* is in active_jobs.                                                      *)
cancel_job_result_unlisted(job_id) == ejobs[job_id].status \in Cancellable

(* ExportService.cancel_job: its return value. *)
cancel_job_result(job_id) ==
    job_id \in active_jobs /\ ejobs[job_id].status \in Cancellable

(* ExportService.cancel_job *)
cancel_job(job_id) ==
    /\ IF cancel_job_result(job_id)
       THEN ejobs' = [ejobs EXCEPT ![job_id].status = "cancelled"]
       ELSE UNCHANGED ejobs
    /\ UNCHANGED <<n_ejobs, active_jobs, job_queue, consumer, db_photos, files>>
    /\ UNCHANGED <<ingest_vars, unit_vars>>

(* delete_photo of the persistence port: the id no longer resolves. *)
delete_photo(p) ==
    /\ p \in db_photos
    /\ db_photos' = db_photos \ {p}
    /\ UNCHANGED <<ejobs, n_ejobs, active_jobs, job_queue, consumer, files>>
    /\ UNCHANGED <<ingest_vars, unit_vars>>

(* Variant of consumer_get: a cancelled job is processed like any other. *)
consumer_get_no_skip ==
    /\ consumer.pc = "idle"
    /\ job_queue # <<>>
    /\ LET job_id == Head(job_queue) IN
       /\ job_queue' = Tail(job_queue)
       /\ IF job_id \notin active_jobs
          THEN UNCHANGED <<ejobs, consumer>>
          ELSE /\ ejobs' = [ejobs EXCEPT ![job_id] = mark_started(@)]
               /\ consumer' = [pc |-> "fetch", job |-> job_id, photos |-> <<>>, idx |-> 1]
    /\ UNCHANGED <<n_ejobs, active_jobs, db_photos, files>>
    /\ UNCHANGED <<ingest_vars, unit_vars>>

(* Variant of consumer_get: the id is taken off the queue and the job is  *)
(* not processed.                                                          *)
consumer_get_unprocessed ==
    /\ consumer.pc = "idle"
    /\ job_queue # <<>>
    /\ job_queue' = Tail(job_queue)
    /\ UNCHANGED <<ejobs, consumer, n_ejobs, active_jobs, db_photos, files>>
    /\ UNCHANGED <<ingest_vars, unit_vars>>

(* _process_job_queue: take the next id; skip an id that is no longer in  *)
(* active_jobs and a cancelled job; otherwise _process_export_job marks   *)
(* the job started and suspends in the first get_photo.                    *)
consumer_get ==
    /\ consumer.pc = "idle"
    /\ job_queue # <<>>
    /\ LET job_id == Head(job_queue) IN
       /\ job_queue' = Tail(job_queue)
       /\ IF job_id \notin active_jobs \/ ejobs[job_id].status = "cancelled"
          THEN UNCHANGED <<ejobs, consumer>>
          ELSE /\ ejobs' = [ejobs EXCEPT ![job_id] = mark_started(@)]
               /\ consumer' = [pc |-> "fetch", job |-> job_id, photos |-> <<>>, idx |-> 1]
    /\ UNCHANGED <<n_ejobs, active_jobs, db_photos, files>>
    /\ UNCHANGED <<ingest_vars, unit_vars>>

(* _process_export_job between two get_photo calls of                    *)
(* _get_photos_for_export: a record that resolves is kept.                 *)
fetched(photos, photo_id) ==
    IF photo_id \in db_photos THEN Append(photos, photo_id) ELSE photos

(* One get_photo returns and the next one is awaited. *)
fetch_next ==
    /\ consumer.pc = "fetch"
    /\ LET job == ejobs[consumer.job] IN
       /\ consumer.idx < Len(job.photo_ids)
       /\ consumer' = [consumer EXCEPT
              !.photos = fetched(@, job.photo_ids[consumer.idx]),
              !.idx = @ + 1]
    /\ UNCHANGED <<ejobs, n_ejobs, active_jobs, job_queue, db_photos, files>>
    /\ UNCHANGED <<ingest_vars, unit_vars>>

Max(S) == CHOOSE x \in S : \A y \in S : x >= y

(* Variant of add_photos_to_zip: the loop ends at the first download that *)
(* fails.                                                                  *)
add_photos_to_zip_aborts(job, photos, fails) ==
    LET ok == {i \in 1..Len(photos) : \A k \in 1..i : k \notin fails} IN
    [job |-> IF ok = {} THEN job ELSE update_progress(job, Max(ok)),
     entries |-> SubSeq(photos, 1, Cardinality(ok))]

(* ExportService._add_photos_to_zip: photo i (from 1) is downloaded and   *)
(* written, and progress is updated to i; a failed download is skipped.   *)
(* fails is the set of positions whose download fails.                     *)
add_photos_to_zip(job, photos, fails) ==
    LET ok == {i \in 1..Len(photos) : i \notin fails} IN
    [job |-> IF ok = {} THEN job ELSE update_progress(job, Max(ok)),
     entries |-> SelectSeq([i \in 1..Len(photos) |-> IF i \in ok THEN photos[i] ELSE "skip"],
                           LAMBDA e : e # "skip")]

(* KMZGenerator._embed_photos: the photos whose download succeeded. *)
embed_photos(photos, fails, include_photos) ==
    IF include_photos
    THEN SelectSeq([i \in 1..Len(photos) |-> IF i \notin fails THEN photos[i] ELSE "skip"],
                   LAMBDA e : e # "skip")
    ELSE <<>>

(* ExportService.__init__ sets no export_directory attribute, which       *)
(* _upload_export_file reads.                                              *)
export_directory_defined == FALSE

(* _upload_export_file calls mark_completed(download_url, file_size,      *)
(* blob_path); ExportJob.mark_completed takes (file_path, file_size).     *)
mark_completed_takes_blob_path == FALSE

(* ExportService._upload_export_file returns normally. *)
upload_export_file_ok == export_directory_defined /\ mark_completed_takes_blob_path

(* The content of an output file. *)
Archive(kml, entries) == [kml |-> kml, photos |-> entries]

(* _generate_kml_export / _generate_kmz_export / _generate_zip_export /   *)
(* _generate_photos_export for job id j: the job object and the           *)
(* temporary file it leaves.  io_error: writing the output raises.        *)
generate_export(j, job, photos, fails, io_error) ==
    CASE job.export_type = "kml" ->
           IF io_error
           THEN [job |-> mark_failed(job, "KML export failed: OSError"),
                 file |-> Archive(FALSE, <<>>)]
           ELSE [job |-> mark_completed(job, j),
                 file |-> Archive(TRUE, <<>>)]
      [] job.export_type = "kmz" ->
           IF io_error
           THEN [job |-> mark_failed(job, "KMZ export failed: OSError"),
                 file |-> Archive(FALSE, <<>>)]
           ELSE [job |-> mark_completed(job, j),
                 file |-> Archive(TRUE,
                            embed_photos(photos, fails, job.include_photos_in_kmz))]
      [] job.export_type = "zip" ->
           LET added == IF job.include_photos_in_kmz
                        THEN add_photos_to_zip(job, photos, fails)
                        ELSE [job |-> job, entries |-> <<>>]
           IN  IF io_error
               THEN [job |-> mark_failed(added.job, "ZIP export failed: OSError"),
                     file |-> Archive(TRUE, added.entries)]
               ELSE [job |-> mark_completed(added.job, j),
                     file |-> Archive(TRUE, added.entries)]
      [] job.export_type = "photos" ->
           LET added == add_photos_to_zip(job, photos, fails) IN
           IF io_error
           THEN [job |-> mark_failed(added.job, "Photos export failed: OSError"),
                 file |-> Archive(FALSE, added.entries)]
           ELSE IF ~upload_export_file_ok
           THEN [job |-> mark_failed(added.job, "Photos export failed: AttributeError"),
                 file |-> Archive(FALSE, added.entries)]
           ELSE [job |-> mark_completed(added.job, j),
                 file |-> Archive(FALSE, added.entries)]

(* The last get_photo returns; the rest of _process_export_job runs       *)
(* without suspending: no photos fails the job, otherwise the generator   *)
(* of the job's format runs.                                               *)
fetch_last(fails, io_error) ==
    /\ consumer.pc = "fetch"
    /\ LET j == consumer.job
           job == ejobs[j]
           photos == fetched(consumer.photos, job.photo_ids[consumer.idx])
       IN
       /\ consumer.idx = Len(job.photo_ids)
       /\ IF photos = <<>>
          THEN /\ ejobs' = [ejobs EXCEPT ![j] =
                      mark_failed(job, "No photos found for export")]
               /\ UNCHANGED files
          ELSE LET out == generate_export(j, job, photos, fails, io_error) IN
               /\ ejobs' = [ejobs EXCEPT ![j] = out.job]
               /\ files' = [k \in DOMAIN files \cup {j} |->
                              IF k = j THEN out.file ELSE files[k]]
       /\ consumer' = IdleConsumer
    /\ UNCHANGED <<n_ejobs, active_jobs, job_queue, db_photos>>
    /\ UNCHANGED <<ingest_vars, unit_vars>>

(***************************************************************************)
(*                     EXPORT: ARCHIVE ENTRY NAMES                         *)
(***************************************************************************)

(* A filename is the sequence of its characters. *)
Name(chars) == chars

(* "photo.jpg" *)
photo_jpg == <<"p", "h", "o", "t", "o", ".", "j", "p", "g">>

(* safe_chars of both _make_safe_filename methods *)
safe_chars ==
    {"a", "b", "c", "d", "e", "f", "g", "h", "i", "j", "k", "l", "m", "n",
     "o", "p", "q", "r", "s", "t", "u", "v", "w", "x", "y", "z", "A", "B",
     "C", "D", "E", "F", "G", "H", "I", "J", "K", "L", "M", "N", "O", "P",
     "Q", "R", "S", "T", "U", "V", "W", "X", "Y", "Z", "0", "1", "2", "3",
     "4", "5", "6", "7", "8", "9", ".", "-", "_"}

(* Variant of ExportService_make_safe_filename: an unsafe character is    *)
(* removed.                                                                *)
ExportService_make_safe_filename_removing(filename) ==
    LET safe_filename == SelectSeq(filename, LAMBDA c : c \in safe_chars) IN
    IF safe_filename = <<>> THEN photo_jpg ELSE safe_filename

(* ExportService._make_safe_filename *)
ExportService_make_safe_filename(filename) ==
    LET safe_filename ==
            [i \in DOMAIN filename |->
                IF filename[i] \in safe_chars THEN filename[i] ELSE "_"]
    IN  IF safe_filename = <<>> THEN photo_jpg ELSE safe_filename

(* KMZGenerator._make_safe_filename *)
KMZGenerator_make_safe_filename(filename) ==
    LET safe_filename ==
            [i \in DOMAIN filename |->
                IF filename[i] \in safe_chars THEN filename[i] ELSE "_"]
    IN  IF safe_filename = <<>> THEN photo_jpg ELSE safe_filename

(* The characters filenames are made of: safe ones of each kind, and a    *)
(* blank, a slash and an at sign.                                          *)
Alphabet == {"a", "Z", "7", ".", "-", "_", " ", "/", "@"}

(* The filenames of at most MaxNameLen characters, the empty one included. *)
Filenames == UNION {[1..n -> Alphabet] : n \in 0..MaxNameLen}

(* Both sanitizers are called on the filename. *)
call_make_safe_filename ==
    /\ archive # None
    /\ archive.export_service = None
    /\ archive' = [archive EXCEPT
           !.export_service = ExportService_make_safe_filename(archive.filename),
           !.kmz_generator = KMZGenerator_make_safe_filename(archive.filename)]
    /\ UNCHANGED <<ingest_vars, export_vars, upload, normalize>>

(* The sanitizer is called on its own result. *)
call_make_safe_filename_again ==
    /\ archive # None
    /\ archive.export_service # None
    /\ archive.twice = None
    /\ archive' = [archive EXCEPT
           !.twice = ExportService_make_safe_filename(archive.export_service)]
    /\ UNCHANGED <<ingest_vars, export_vars, upload, normalize>>

(* A file: its name and the photo whose bytes it holds. *)
Entry(name, content) == [name |-> name, content |-> content]

(* KMZGenerator._embed_photos and generate_kmz: each downloaded photo is  *)
(* written to files_dir under its safe filename, replacing a file of that *)
(* name that is already there; the archive gets one entry per file of     *)
(* files_dir.                                                              *)
kmz_photo_files(photos, original_filename, fails, include_photos) ==
    LET written == embed_photos(photos, fails, include_photos)
        name(i) == KMZGenerator_make_safe_filename(original_filename[written[i]])
    IN  {Entry(name(i), written[i]) : i \in
            {k \in DOMAIN written :
                \A l \in DOMAIN written : l > k => name(l) # name(k)}}

(* ExportService._add_photos_to_zip: zip_file.writestr adds an entry for  *)
(* each downloaded photo, under its safe filename, also if the archive    *)
(* has an entry of that name.                                              *)
zip_photo_entries(photos, original_filename, fails) ==
    LET added == add_photos_to_zip(ExportJob(photos, "zip", TRUE), photos, fails).entries IN
    [i \in DOMAIN added |->
        Entry(ExportService_make_safe_filename(original_filename[added[i]]), added[i])]

(* The photos the generators are called on, in the order of the job. *)
ArchivePhotos == {<<"p1">>, <<"p1", "p2">>, <<"p1", "p2", "p3">>}

(* original_filename of a photo: two of the names differ in an unsafe     *)
(* character only.                                                         *)
OriginalFilenames == {Name(<<"a", " ">>), Name(<<"a", "/">>), Name(<<"b">>)}

(* generate_kmz is called on the photos: the photo files of the archive. *)
call_generate_kmz ==
    /\ archive # None
    /\ archive.kmz = None
    /\ archive' = [archive EXCEPT !.kmz =
           [files |-> kmz_photo_files(archive.photos, archive.original_filename,
                                      archive.fails, TRUE)]]
    /\ UNCHANGED <<ingest_vars, export_vars, upload, normalize>>

(* _generate_zip_export is called on the photos: the photo entries of the *)
(* archive.                                                                *)
call_generate_zip ==
    /\ archive # None
    /\ archive.zip = None
    /\ archive' = [archive EXCEPT !.zip =
           [entries |-> zip_photo_entries(archive.photos, archive.original_filename,
                                          archive.fails)]]
    /\ UNCHANGED <<ingest_vars, export_vars, upload, normalize>>

(***************************************************************************)
(*                       EXPORT: KML FOLDERS BY DATE                       *)
(***************************************************************************)

(* A capture time: the calendar date and the hour of the day. *)
Timestamp(year, month, day, hour) ==
    [year |-> year, month |-> month, day |-> day, hour |-> hour]

Timestamps ==
    {Timestamp(d[1], d[2], d[3], hour) :
        d \in {<<2023, 12, 31>>, <<2024, 1, 2>>, <<2024, 1, 10>>}, hour \in {9, 15}}

(* A string is the sequence of the code points of its characters:         *)
(* '0'..'9' are 48..57 and '-' is 45.                                      *)
digit(n) == 48 + (n % 10)

(* timestamp.strftime('%Y-%m-%d'): four digits, two digits, two digits *)
strftime_Ymd(timestamp) ==
    <<digit(timestamp.year \div 1000), digit(timestamp.year \div 100),
      digit(timestamp.year \div 10), digit(timestamp.year), 45,
      digit(timestamp.month \div 10), digit(timestamp.month), 45,
      digit(timestamp.day \div 10), digit(timestamp.day)>>

(* a < b for two strings, as Python compares them *)
str_lt(a, b) ==
    \E i \in 1..(Len(a) + 1) :
        /\ \A k \in 1..(i - 1) : k <= Len(b) /\ a[k] = b[k]
        /\ i <= Len(b)
        /\ i <= Len(a) => a[i] < b[i]

(* The keys of groups in the order in which the loop inserts them: each   *)
(* date_str at the position of the first photo that has it.                *)
group_keys(photos, timestamp) ==
    LET date_str(i) == strftime_Ymd(timestamp[photos[i]])
        first == SelectSeq([i \in DOMAIN photos |-> i],
                           LAMBDA i : \A k \in 1..(i - 1) : date_str(k) # date_str(i))
    IN  [n \in DOMAIN first |-> date_str(first[n])]

(* groups[date_str]: the photos with that date_str, in input order *)
group_of(photos, timestamp, date_str) ==
    SelectSeq(photos, LAMBDA photo : strftime_Ymd(timestamp[photo]) = date_str)

(* sorted(keys) *)
sorted(keys) ==
    CHOOSE q \in [DOMAIN keys -> Range(keys)] :
        /\ Range(q) = Range(keys)
        /\ \A i, k \in DOMAIN q : i < k => str_lt(q[i], q[k])

(* Variant of group_photos_by_date: the groups are not sorted. *)
group_photos_by_date_unsorted(photos, timestamp) ==
    LET keys == group_keys(photos, timestamp) IN
    [n \in DOMAIN keys |->
        [date_str |-> keys[n], date_photos |-> group_of(photos, timestamp, keys[n])]]

(* KMLGenerator._group_photos_by_date: dict(sorted(groups.items())), as   *)
(* the sequence of its items.                                              *)
group_photos_by_date(photos, timestamp) ==
    LET keys == sorted(group_keys(photos, timestamp)) IN
    [n \in DOMAIN keys |->
        [date_str |-> keys[n], date_photos |-> group_of(photos, timestamp, keys[n])]]

(* KMLGenerator.generate_kml: the Folder elements of the document, each   *)
(* with the Placemark elements _add_photo_placemark adds to it.           *)
generate_kml(photos, timestamp) ==
    LET photo_groups == group_photos_by_date(photos, timestamp) IN
    [n \in DOMAIN photo_groups |->
        [name |-> photo_groups[n].date_str,
         placemarks |-> photo_groups[n].date_photos]]

(* generate_kml is called on the photos of a job. *)
call_generate_kml ==
    /\ archive # None
    /\ archive.kml = None
    /\ archive' = [archive EXCEPT !.kml =
           [folders |-> generate_kml(archive.photos, archive.timestamp)]]
    /\ UNCHANGED <<ingest_vars, export_vars, upload, normalize>>

(* export_service.py imports ExportJob, ExportFormat and CoordinateSystem *)
(* from models.export, and not JobStatus, which get_export_file names.    *)
JobStatus_imported == FALSE

(* ExportService.get_export_file: what it returns ("file_path" stands    *)
(* for job.file_path), or the error it raises.  It changes nothing.       *)
get_export_file(job_id) ==
    IF job_id \notin active_jobs THEN "None"
    ELSE IF ~JobStatus_imported THEN "NameError"
    ELSE IF ejobs[job_id].status # "completed" THEN "None"
    ELSE IF ~file_exists(job_id) THEN "None"
    ELSE "file_path"

(* Time passes job j's expires_at (created_at + 24 h): is_expired() is    *)
(* true from then on.  Jobs expire in the order they were created.        *)
expire(j) ==
    /\ ejobs[j].status # "absent"
    /\ ~ejobs[j].expired
    /\ \A k \in ExportIds : k < j => ejobs[k].expired
    /\ ejobs' = [ejobs EXCEPT ![j].expired = TRUE]
    /\ UNCHANGED <<n_ejobs, active_jobs, job_queue, consumer, db_photos, files>>
    /\ UNCHANGED <<ingest_vars, unit_vars>>

(* Variant of cleanup_expired_jobs: every job is swept, expired or not. *)
cleanup_every_job ==
    LET expired_jobs == active_jobs IN
    /\ expired_jobs # {}
    /\ files' = [k \in {f \in DOMAIN files :
                          ~(f \in expired_jobs /\ ejobs[f].file_path = f)} |-> files[k]]
    /\ active_jobs' = active_jobs \ expired_jobs
    /\ UNCHANGED <<ejobs, n_ejobs, job_queue, consumer, db_photos>>
    /\ UNCHANGED <<ingest_vars, unit_vars>>

(* ExportService.cleanup_expired_jobs: the jobs whose is_expired() is true *)
(* are collected, the file at each one's file_path is removed if it       *)
(* exists, and the job leaves active_jobs.                                 *)
cleanup_expired_jobs ==
    LET expired_jobs == {j \in active_jobs : ejobs[j].expired} IN
    /\ expired_jobs # {}
    /\ files' = [k \in {f \in DOMAIN files :
                          ~(f \in expired_jobs /\ ejobs[f].file_path = f)} |-> files[k]]
    /\ active_jobs' = active_jobs \ expired_jobs
    /\ UNCHANGED <<ejobs, n_ejobs, job_queue, consumer, db_photos>>
    /\ UNCHANGED <<ingest_vars, unit_vars>>

IngestInit ==
    /\ pjobs = [j \in IngestIds |-> AbsentJob]
    /\ n_pjobs = 0
    /\ processing_queue = <<>>
    /\ worker = [pc |-> "idle", job |-> NoJob]
    /\ photo_records = <<>>
    /\ responses = <<>>

ExportInit ==
    /\ ejobs = [j \in ExportIds |-> AbsentExport]
    /\ n_ejobs = 0
    /\ active_jobs = {}
    /\ job_queue = <<>>
    /\ consumer = IdleConsumer
    /\ db_photos = PhotoIds
    /\ files = <<>>

(* PhotoUploadService has not been called on its own. *)
UploadIdle == upload = None

(* No payload is given to the normalizer on its own. *)
NormalizeIdle == normalize = None

(* The generators have not been called on their own. *)
ArchiveIdle == archive = None

Init == IngestInit /\ ExportInit /\ UploadIdle /\ NormalizeIdle /\ ArchiveIdle

NextIngest ==
    \/ \E sub \in Submissions : upload_photo(sub)
    \/ worker_get
    \/ \E outcome \in {"ok", "error", "timeout"} : upload_done(outcome)
    \/ \E ok \in BOOLEAN : persist_done(ok)
    \/ backoff_done

SpecIngest == Init /\ [][NextIngest]_vars

(* The ingestion pipeline with its worker running: start_processing      *)
(* loops for ever (an exception of one job is caught and the loop goes    *)
(* on), so whenever the worker can take a job it does, and every await of *)
(* _process_photo_job returns: the upload within its 120 s timeout,       *)
(* create_photo, and the sleep before a retry.  Submissions are not       *)
(* forced to happen.                                                       *)
SpecIngestFair ==
    /\ Init
    /\ [][NextIngest]_vars
    /\ WF_vars(worker_get)
    /\ WF_vars(\E outcome \in {"ok", "error", "timeout"} : upload_done(outcome))
    /\ WF_vars(\E ok \in BOOLEAN : persist_done(ok))
    /\ WF_vars(backoff_done)

(* The ingestion pipeline together with the route that rewrites the       *)
(* coordinates of a stored record.                                         *)
NextRecords ==
    \/ NextIngest
    \/ \E photo_id \in IngestIds, c \in UpdateCoordinates :
           update_photo_coordinates(photo_id, c[1], c[2])

SpecRecords == Init /\ [][NextRecords]_vars

NextExport ==
    \/ \E photo_ids \in Requests, opt \in ExportOptions :
           create_export_job(photo_ids, opt[1], opt[2])
    \/ \E job_id \in ExportIds : cancel_job(job_id)
    \/ \E p \in PhotoIds : delete_photo(p)
    \/ consumer_get
    \/ fetch_next
    \/ \E fails \in SUBSET (1..2), io_error \in BOOLEAN : fetch_last(fails, io_error)
    \/ \E j \in ExportIds : expire(j)
    \/ cleanup_expired_jobs

SpecExport == Init /\ [][NextExport]_vars

(* The export service with its consumer running: _process_job_queue      *)
(* loops until it is cancelled (an exception of one job is caught and the *)
(* loop goes on), so whenever an id is on the queue it is taken, and      *)
(* every awaited get_photo returns.  Requests, cancellations, deletions   *)
(* of photos, the passing of time and the sweep are not forced to happen. *)
SpecExportFair ==
    /\ Init
    /\ [][NextExport]_vars
    /\ WF_vars(consumer_get)
    /\ WF_vars(fetch_next)
    /\ WF_vars(\E fails \in SUBSET (1..2), io_error \in BOOLEAN :
                  fetch_last(fails, io_error))

(* The two queues side by side.  PhotoProcessor and ExportService share   *)
(* no state (each action of one leaves the variables of the other         *)
(* unchanged), so a behaviour in which both run is an interleaving of a   *)
(* behaviour of each; here each service runs while the other one is still *)
(* in its initial state.                                                   *)
NextQueues ==
    \/ ExportInit /\ NextIngest
    \/ IngestInit /\ NextExport

SpecQueues == Init /\ [][NextQueues]_vars

(* PhotoUploadService on its own: one file and one set of form fields,    *)
(* on which extract_exif_data and process_upload are called.              *)
UploadInit ==
    \E file \in Files, manual_coordinates \in ManualCoordinates :
        upload = [file |-> file, manual_coordinates |-> manual_coordinates,
                  pil_data |-> None, exifread_data |-> None,
                  exif_data |-> None, photo_data |-> None]

NextUpload ==
    \/ call_extract_exif_data
    \/ call_process_upload

InitUpload ==
    IngestInit /\ ExportInit /\ UploadInit /\ NormalizeIdle /\ ArchiveIdle

SpecUpload == InitUpload /\ [][NextUpload]_vars

(* Steps 1 and 3 of _process_photo_job on their own: one payload taken    *)
(* off the queue.                                                          *)
NormalizeInit ==
    \E payload \in Payloads :
        normalize =
            [input |-> [file_content |-> Content("original", payload.size),
                        mime_type |-> payload.mime_type,
                        filename |-> payload.filename],
             photo_data |-> [file_content |-> Content("original", payload.size),
                             mime_type |-> payload.mime_type,
                             filename |-> payload.filename],
             pillow |-> payload.pillow, jpeg_size |-> payload.jpeg_size,
             processed_content |-> None, generate_thumbnails |-> FALSE,
             pc |-> "step1"]

InitNormalize ==
    IngestInit /\ ExportInit /\ UploadIdle /\ NormalizeInit /\ ArchiveIdle

NextNormalize ==
    \/ step1_convert_image_format
    \/ step3_upload

SpecNormalize == InitNormalize /\ [][NextNormalize]_vars

(* The archive generators on their own: the photos of one job, their      *)
(* original filenames and the positions whose download fails.             *)
ArchiveInit ==
    \E photos \in ArchivePhotos :
        \E original_filename \in [Range(photos) -> OriginalFilenames],
           fails \in SUBSET DOMAIN photos :
            archive = [photos |-> photos, original_filename |-> original_filename,
                       fails |-> fails, kmz |-> None, zip |-> None]

InitArchive ==
    IngestInit /\ ExportInit /\ UploadIdle /\ NormalizeIdle /\ ArchiveInit

NextArchive ==
    \/ call_generate_kmz
    \/ call_generate_zip

SpecArchive == InitArchive /\ [][NextArchive]_vars

(* The KML generator on its own: the photos of one job and their capture  *)
(* times.                                                                  *)
KmlInit ==
    \E photos \in ArchivePhotos :
        \E timestamp \in [Range(photos) -> Timestamps] :
            archive = [photos |-> photos, timestamp |-> timestamp, kml |-> None]

InitKml ==
    IngestInit /\ ExportInit /\ UploadIdle /\ NormalizeIdle /\ KmlInit

NextKml == call_generate_kml

SpecKml == InitKml /\ [][NextKml]_vars

(* The filename sanitizers on their own, on one filename. *)
FilenameInit ==
    \E filename \in Filenames :
        archive = [filename |-> filename, export_service |-> None,
                   kmz_generator |-> None, twice |-> None]

InitFilename ==
    IngestInit /\ ExportInit /\ UploadIdle /\ NormalizeIdle /\ FilenameInit

NextFilename ==
    \/ call_make_safe_filename
    \/ call_make_safe_filename_again

SpecFilename == InitFilename /\ [][NextFilename]_vars

(***************************************************************************)
(*                         PROPERTIES: INGESTION                           *)
(***************************************************************************)

InQueue(j) == j \in Range(processing_queue)

(* C1: at most one photo record exists per content hash, and an upload    *)
(* answered "duplicate" names the first record with its hash.  The        *)
(* duplicate check of upload_photo reads only the photo collection, so a  *)
(* second upload made before the first one's job has persisted its record *)
(* is queued too, and both jobs create a record.                           *)
C1_OneRecordPerHash ==
    /\ \A i, k \in DOMAIN photo_records :
          photo_records[i].hash_md5 = photo_records[k].hash_md5 => i = k
    /\ \A i \in DOMAIN responses :
          responses[i].status = "duplicate" =>
             \E k \in DOMAIN photo_records :
                /\ photo_records[k].id = responses[i].photo_id
                /\ photo_records[k].hash_md5 = responses[i].hash_md5

(* C3: a job is attempted at most max_retries (3) times; every failed     *)
(* attempt adds one to retry_count; after a failure the job is in state   *)
(* retry (and goes back on the queue) iff the new count is < 3, and is    *)
(* failed, never on the queue again, iff the count is >= 3.                *)
C3_RetryBound ==
    \A j \in IngestIds :
       LET jb == pjobs[j] IN
       /\ jb.attempts <= max_retries
       /\ jb.retry_count = jb.failures
       /\ jb.attempts = jb.failures
                        + (IF jb.status \in {"processing", "completed"} THEN 1 ELSE 0)
       /\ jb.status = "retry" <=> (jb.failures > 0 /\ jb.retry_count < max_retries
                                   /\ (InQueue(j) \/ worker = [pc |-> "backoff", job |-> j]))
       /\ jb.status = "failed" <=> jb.retry_count >= max_retries
       /\ jb.status = "failed" => ~InQueue(j) /\ worker.job # j
       /\ InQueue(j) => jb.retry_count < max_retries

(* C3 witness: a job failed for good on its third attempt, and one of its *)
(* failures was an upload timeout (no cleanup by the blob manager then).  *)
C3_Witness ==
    \E j \in IngestIds :
       /\ pjobs[j].status = "failed"
       /\ pjobs[j].attempts = max_retries
       /\ pjobs[j].upload_errors < pjobs[j].failures

(* C4 as stated: a failed job has had delete_photo_and_thumbnails called  *)
(* exactly once over all its attempts, and a completed job keeps the blob *)
(* of its successful upload.                                               *)
C4_CleanupExactlyOnce ==
    \A j \in IngestIds :
       /\ pjobs[j].status = "failed" => pjobs[j].deletes = 1
       /\ pjobs[j].status = "completed" => pjobs[j].blob

(* C4 amended: the worker's terminal branch calls                          *)
(* delete_photo_and_thumbnails exactly once for a job that ends failed    *)
(* and never otherwise; the blob manager calls it once more in every      *)
(* attempt whose upload raised.  A failed job has seen 1 + (number of     *)
(* attempts whose upload raised) calls, between 1 and 1 + max_retries; a  *)
(* job that is not failed has seen one call per raised upload; a          *)
(* completed job keeps the blob of its successful upload.                  *)
C4_CleanupCount ==
    \A j \in IngestIds :
       LET jb == pjobs[j] IN
       /\ jb.status = "failed" => /\ jb.deletes = 1 + jb.upload_errors
                                  /\ jb.deletes >= 1
                                  /\ jb.deletes <= 1 + max_retries
       /\ jb.status # "failed" => jb.deletes = jb.upload_errors
       /\ jb.status = "completed" => jb.blob

(* C4 witness: a failed job whose three uploads all raised: four calls. *)
C4_Witness ==
    \E j \in IngestIds :
       pjobs[j].status = "failed" /\ pjobs[j].deletes = 1 + max_retries

(* The status edges of an ingestion job as C6 states them. *)
C6_StatedEdges ==
    {<<"absent", "pending">>, <<"pending", "processing">>,
     <<"processing", "completed">>, <<"processing", "retry">>,
     <<"processing", "failed">>, <<"retry", "pending">>}

(* C6 as stated: every status change is one of the stated edges, and a    *)
(* job waiting in the queue has status pending.                            *)
C6_IngestEdges ==
    /\ [][\A j \in IngestIds :
             pjobs'[j].status # pjobs[j].status =>
                <<pjobs[j].status, pjobs'[j].status>> \in C6_StatedEdges]_vars
    /\ [](\A j \in IngestIds : InQueue(j) => pjobs[j].status = "pending")

(* The status edges the worker takes. *)
C6_CodeEdges ==
    {<<"absent", "pending">>, <<"pending", "processing">>,
     <<"retry", "processing">>,
     <<"processing", "completed">>, <<"processing", "retry">>,
     <<"processing", "failed">>}

(* C6 amended: every status change is pending -> processing,              *)
(* retry -> processing, or processing -> completed | retry | failed (a    *)
(* re-enqueued job keeps status retry until the worker takes it again);   *)
(* completed and failed are never left, and a job waiting in the queue    *)
(* has status pending or retry.                                            *)
C6_IngestEdgesAmended ==
    /\ [][\A j \in IngestIds :
             pjobs'[j].status # pjobs[j].status =>
                <<pjobs[j].status, pjobs'[j].status>> \in C6_CodeEdges]_vars
    /\ [](\A j \in IngestIds : InQueue(j) => pjobs[j].status \in {"pending", "retry"})

(* C6 witness: a re-enqueued job waits in the queue with status retry. *)
C6_Witness ==
    \E j \in IngestIds : InQueue(j) /\ pjobs[j].status = "retry"

(***************************************************************************)
(*                          PROPERTIES: EXPORT                             *)
(***************************************************************************)

Terminal == {"completed", "failed", "cancelled"}

C5_StatedEdges ==
    {<<"absent", "pending">>, <<"absent", "queued">>, <<"pending", "queued">>,
     <<"queued", "processing">>, <<"processing", "completed">>,
     <<"processing", "failed">>,
     <<"pending", "cancelled">>, <<"queued", "cancelled">>,
     <<"processing", "cancelled">>}

(* C5: every status change of an export job is one of the stated edges,  *)
(* and a job whose id waits in job_queue is queued (or cancelled).         *)
C5_ExportEdges ==
    /\ [][\A j \in ExportIds :
             ejobs'[j].status # ejobs[j].status =>
                <<ejobs[j].status, ejobs'[j].status>> \in C5_StatedEdges]_vars
    /\ [](\A j \in Range(job_queue) : ejobs[j].status \in {"queued", "cancelled"})

(* C7: get_export_file returns the file path of a completed, unexpired    *)
(* job whose file exists, and None, without raising, for a job that is    *)
(* not completed.                                                          *)
C7_GetExportFile ==
    \A j \in ExportIds :
       /\ (/\ j \in active_jobs
           /\ ejobs[j].status = "completed"
           /\ ~ejobs[j].expired
           /\ file_exists(j)) => get_export_file(j) = "file_path"
       /\ ejobs[j].status # "completed" => get_export_file(j) = "None"

(* C8: a PHOTOS_ONLY job whose generation ran with every photo id         *)
(* resolved and every photo fetched and written, with no I/O error and    *)
(* no cancellation, is completed, and its archive holds no KML.           *)
C8_PhotosOnlyCompletes ==
    \A j \in ExportIds :
       (/\ ejobs[j].export_type = "photos"
        /\ j \in DOMAIN files
        /\ files[j].photos = ejobs[j].photo_ids
        /\ ejobs[j].error_message # "Photos export failed: OSError"
        /\ ejobs[j].status # "cancelled")
       => (ejobs[j].status = "completed" /\ ~files[j].kml)

(* C9: progress never decreases, and for a job with total_photos > 0 it  *)
(* is 100 exactly when processed_photos = total_photos.                    *)
C9_ProgressMonotoneAndFull ==
    /\ [][\A j \in ExportIds :
             ejobs[j].status # "absent" =>
                FracLe(ejobs[j].progress, ejobs'[j].progress)]_vars
    /\ [](\A j \in ExportIds :
             ejobs[j].total_photos > 0 =>
                (FracEq(ejobs[j].progress, Frac(100, 1))
                   <=> ejobs[j].processed_photos = ejobs[j].total_photos))

(* C10: processed_photos <= total_photos, and with total_photos > 0       *)
(* progress = 100 * processed_photos / total_photos.                       *)
C10_ProgressFormula ==
    \A j \in ExportIds :
       /\ ejobs[j].processed_photos <= ejobs[j].total_photos
       /\ ejobs[j].total_photos > 0 =>
             FracEq(ejobs[j].progress,
                    Frac(100 * ejobs[j].processed_photos, ejobs[j].total_photos))

(* The jobs a sweep finds expired. *)
ExpiredActive == {j \in active_jobs : ejobs[j].expired}

ResolvingPositions(photo_ids) == {i \in DOMAIN photo_ids : photo_ids[i] \in db_photos}

(* C12: a create_export_job call for which some requested id resolves     *)
(* creates a job whose photo_ids are exactly the requested ids that       *)
(* resolve, in request order, and whose total_photos is their number.     *)
C12_FilteredPhotoIds ==
    [][\A photo_ids \in Requests, opt \in ExportOptions :
          (create_export_job(photo_ids, opt[1], opt[2])
           /\ ResolvingPositions(photo_ids) # {})
          => LET job == ejobs'[n_ejobs + 1]
                 kept == ResolvingPositions(photo_ids)
             IN  /\ ejobs[n_ejobs + 1].status = "absent"
                 /\ job.status = "pending"
                 /\ Len(job.photo_ids) = Cardinality(kept)
                 /\ job.total_photos = Cardinality(kept)
                 /\ \A a \in DOMAIN job.photo_ids :
                       \E i \in kept :
                          /\ photo_ids[i] = job.photo_ids[a]
                          /\ Cardinality({k \in kept : k < i}) = a - 1]_vars

(* C12 witness: the request <<p2, p3, p1>>, two ids that resolve and one  *)
(* that does not, gave a job for <<p2, p1>> with total_photos = 2.         *)
C12_Witness ==
    \E j \in ExportIds :
       /\ ejobs[j].status # "absent"
       /\ ejobs[j].photo_ids = <<"p2", "p1">>
       /\ ejobs[j].total_photos = 2

(* C13: a create_export_job call for which no requested id resolves       *)
(* raises and changes neither active_jobs, nor the queue, nor any job;    *)
(* otherwise it returns the job, registers it under a fresh id and        *)
(* appends that id to the queue.  No id is ever twice in the queue, and   *)
(* every id in the queue was created.                                      *)
C13_CreateOrFail ==
    /\ [][\A photo_ids \in Requests, opt \in ExportOptions :
             create_export_job(photo_ids, opt[1], opt[2])
             => IF \A i \in DOMAIN photo_ids : photo_ids[i] \notin db_photos
                THEN /\ create_export_job_result(photo_ids) = "ValueError"
                     /\ UNCHANGED <<active_jobs, job_queue, ejobs, n_ejobs>>
                ELSE /\ create_export_job_result(photo_ids) = "ExportJob"
                     /\ \E id \in ExportIds \ active_jobs :
                           /\ ejobs[id].status = "absent"
                           /\ ejobs'[id].status = "pending"
                           /\ ejobs'[id].photo_ids # <<>>
                           /\ active_jobs' = active_jobs \cup {id}
                           /\ id \notin Range(job_queue)
                           /\ job_queue' = Append(job_queue, id)]_vars
    /\ [](\A a, b \in DOMAIN job_queue : job_queue[a] = job_queue[b] => a = b)
    /\ [](\A a \in DOMAIN job_queue : ejobs[job_queue[a]].status # "absent")
    /\ [](\A j \in ExportIds : ejobs[j].status # "absent" => ejobs[j].photo_ids # <<>>)

(* C13 witness: one job was created and waits in the queue, and no photo  *)
(* id resolves any more, so that every further request is refused.         *)
C13_Witness ==
    /\ db_photos = {}
    /\ n_ejobs = 1
    /\ 1 \in active_jobs
    /\ job_queue = <<1>>

(* C14: cancel_job returns true and sets the status to cancelled, and     *)
(* changes nothing else, iff the job is registered and pending, queued or *)
(* processing; otherwise it returns false and changes nothing.  No other  *)
(* step makes a job cancelled.                                             *)
C14_CancelOnlyWhileActive ==
    /\ [][\A j \in ExportIds :
             cancel_job(j)
             => LET effective == /\ j \in active_jobs
                                 /\ ejobs[j].status \in {"pending", "queued", "processing"}
                IN  /\ cancel_job_result(j) <=> effective
                    /\ effective =>
                          ejobs' = [ejobs EXCEPT ![j] =
                                       [ejobs[j] EXCEPT !.status = "cancelled"]]
                    /\ ~effective => ejobs' = ejobs]_vars
    /\ [][\A j \in ExportIds :
             (ejobs'[j].status = "cancelled" /\ ejobs[j].status # "cancelled")
             => /\ j \in active_jobs
                /\ ejobs[j].status \in {"pending", "queued", "processing"}
                /\ ejobs'[j] = [ejobs[j] EXCEPT !.status = "cancelled"]]_vars

(* C14 witness: one job was cancelled while it was processing (the        *)
(* consumer still holds it), and another one is completed and registered. *)
C14_Witness ==
    \E j, k \in ExportIds :
       /\ ejobs[j].status = "cancelled" /\ consumer.job = j
       /\ ejobs[k].status = "completed" /\ k \in active_jobs

(* C15: a job that is cancelled while the consumer does not hold it is    *)
(* never started: it stays cancelled, the consumer never holds it, its    *)
(* fields do not change and no file appears for it; and when the consumer *)
(* takes the id of a cancelled job off the queue it is idle again at      *)
(* once, with the rest of the queue in place.                              *)
C15_CancelledIsSkipped ==
    /\ [][\A j \in ExportIds :
             (ejobs[j].status = "cancelled" /\ consumer.job # j)
             => /\ ejobs'[j] = [ejobs[j] EXCEPT !.expired = ejobs'[j].expired]
                /\ consumer'.job # j
                /\ (j \in DOMAIN files') <=> (j \in DOMAIN files)]_vars
    /\ [][(/\ job_queue # <<>>
           /\ job_queue' = Tail(job_queue)
           /\ ejobs[Head(job_queue)].status = "cancelled")
          => /\ consumer' = IdleConsumer
             /\ ejobs' = ejobs
             /\ files' = files]_vars

(* C15 witness: the id of a cancelled job has been taken off the queue    *)
(* and skipped (no file, not held), and a job created after it has been   *)
(* generated.                                                              *)
C15_Witness ==
    \E j, k \in ExportIds :
       /\ j < k
       /\ ejobs[j].status = "cancelled"
       /\ j \notin Range(job_queue) /\ consumer.job # j /\ j \notin DOMAIN files
       /\ ejobs[k].status = "completed"

RunningGenerations == IF consumer.pc = "idle" THEN 0 ELSE 1

(* C18: at most max_concurrent_jobs generations run at once, and while    *)
(* fewer are running a queued job does not wait for a running generation: *)
(* the consumer is free to take it.  _process_job_queue awaits            *)
(* _process_export_job before it reads the queue again, and the executor  *)
(* is never used: a job created during a generation waits for its end.    *)
C18_WorkerPool ==
    /\ RunningGenerations <= max_concurrent_jobs
    /\ Cardinality({j \in ExportIds : ejobs[j].status = "processing"}) <= max_concurrent_jobs
    /\ (job_queue # <<>> /\ RunningGenerations < max_concurrent_jobs)
          => consumer.pc = "idle"

(***************************************************************************)
(*                   PROPERTIES: QUEUES, VALIDATION, RECORDS               *)
(***************************************************************************)

(* An export job whose generation has begun. *)
ExportStarted(j) ==
    ejobs[j].status \in {"processing", "completed", "failed"} \/ consumer.job = j

(* C17: both queues are FIFO with no priority.  A step that takes a job   *)
(* off a queue takes its head, and a step that adds one (a submission, or *)
(* the re-enqueue of a retried ingestion job) adds it at the tail; job    *)
(* ids follow submission order, and a job's first processing never begins *)
(* before that of a job submitted earlier (for export: before an earlier  *)
(* job has left the queue).                                                *)
C17_FifoOrder ==
    /\ [][/\ Len(processing_queue') < Len(processing_queue)
             => /\ processing_queue' = Tail(processing_queue)
                /\ pjobs'[Head(processing_queue)].attempts
                      = pjobs[Head(processing_queue)].attempts + 1
          /\ Len(processing_queue') > Len(processing_queue)
             => \E j \in IngestIds : processing_queue' = Append(processing_queue, j)
          /\ Len(processing_queue') = Len(processing_queue)
             => processing_queue' = processing_queue]_vars
    /\ [](\A j, k \in IngestIds :
             (j < k /\ pjobs[k].attempts > 0) => pjobs[j].attempts > 0)
    /\ [][/\ Len(job_queue') < Len(job_queue)
             => /\ job_queue' = Tail(job_queue)
                /\ consumer'.job \in {Head(job_queue), NoJob}
          /\ Len(job_queue') > Len(job_queue)
             => \E j \in ExportIds : job_queue' = Append(job_queue, j)
          /\ Len(job_queue') = Len(job_queue)
             => job_queue' = job_queue]_vars
    /\ [](\A j, k \in ExportIds :
             (j < k /\ ExportStarted(k)) => j \notin Range(job_queue))
    /\ [](\A a, b \in DOMAIN job_queue : a < b => job_queue[a] < job_queue[b])

(* C17 witness: ingestion job 1 failed once and was put back on the queue *)
(* behind job 2, which was submitted during the back-off and has not been *)
(* started.                                                                *)
C17_Witness ==
    /\ n_pjobs >= 2
    /\ processing_queue = <<2, 1>>
    /\ pjobs[1].retry_count = 1
    /\ pjobs[2].attempts = 0

(* The number of responses with a given status. *)
InLatitudeRange(x) == FracLe(Deg(-90), x) /\ FracLe(x, Deg(90))

InLongitudeRange(x) == FracLe(Deg(-180), x) /\ FracLe(x, Deg(180))

CountResponses(status) ==
    Cardinality({i \in DOMAIN responses : responses[i].status = status})

(* What C19 calls rejected by validation: the file is over 50 MB, its     *)
(* declared type is not supported, the image is corrupt, there are no     *)
(* coordinates (manual ones, else those of EXIF), or they are out of      *)
(* range.                                                                  *)
C19_Rejected(sub) ==
    LET c == IF sub.manual # NoCoordinates THEN sub.manual
             ELSE IF sub.exif.latitude # None /\ sub.exif.longitude # None
             THEN <<sub.exif.latitude, sub.exif.longitude>>
             ELSE NoCoordinates
    IN
    \/ sub.file_size > 50 * 1024 * 1024
    \/ sub.content_type \notin {"image/jpeg", "image/png", "image/tiff",
                                "image/heic", "application/octet-stream"}
    \/ sub.corrupt
    \/ c = NoCoordinates
    \/ (c # NoCoordinates /\ ~(InLatitudeRange(c[1]) /\ InLongitudeRange(c[2])))

(* C19: a submission rejected by validation is answered with an error,    *)
(* and creates no job, no queue entry and no record; every job that       *)
(* exists answers one accepted submission, so that nothing is ever        *)
(* attempted or retried for a rejected one.                                *)
C19_RejectedLeavesNoTrace ==
    /\ [][\A sub \in Submissions :
             (upload_photo(sub) /\ C19_Rejected(sub))
             => /\ process_upload(sub).error # ""
                /\ responses' = Append(responses,
                      [status |-> "error", hash_md5 |-> "",
                       photo_id |-> NoJob, job_id |-> NoJob])
                /\ UNCHANGED <<pjobs, n_pjobs, processing_queue, worker,
                               photo_records>>]_vars
    /\ [](n_pjobs = CountResponses("queued"))
    /\ [](\A j \in IngestIds :
             pjobs[j].status # "absent"
             => /\ j <= n_pjobs
                /\ InLatitudeRange(pjobs[j].latitude)
                /\ InLongitudeRange(pjobs[j].longitude))
    /\ [](Len(photo_records) <= n_pjobs)

(* C19 witness: a rejected submission was answered with an error between  *)
(* two accepted ones; exactly the two accepted ones have a job.            *)
C19_Witness ==
    /\ Len(responses) = 3
    /\ responses[1].status = "queued"
    /\ responses[2].status = "error"
    /\ responses[3].status = "queued"
    /\ n_pjobs = 2

(* C20: every stored photo record has latitude in [-90, 90] and longitude *)
(* in [-180, 180].  update_photo_coordinates passes the values of the     *)
(* request to update_photo without validate_coordinates: a record can be  *)
(* given latitude 95.                                                      *)
C20_CoordinatesInRange ==
    \A i \in DOMAIN photo_records :
       /\ InLatitudeRange(photo_records[i].latitude)
       /\ InLongitudeRange(photo_records[i].longitude)

(***************************************************************************)
(*                     PROPERTIES: UPLOAD SERVICE                          *)
(***************************************************************************)

(* process_upload was called on the file. *)
Processed == upload # None /\ upload.photo_data # None

(* extract_exif_data was called on the file. *)
Extracted == upload # None /\ upload.exif_data # None

(* C21: process_upload takes the coordinates by strict precedence: the    *)
(* manual ones if they are supplied; otherwise those of EXIF if it yields *)
(* both a latitude and a longitude, 0 included; otherwise the submission  *)
(* fails for lack of coordinates.  The code tests the EXIF values for     *)
(* truthiness, so that an EXIF position on the equator or on the prime    *)
(* meridian is refused as if there were none.                              *)
C21_CoordinatePrecedence ==
    Processed =>
        LET exif_data == extract_exif_data(upload.file)
            manual == upload.manual_coordinates
            photo_data == upload.photo_data
        IN
        /\ (manual # None /\ photo_data.error = "")
           => /\ photo_data.coordinate_source = "manual"
              /\ photo_data.latitude = manual[1]
              /\ photo_data.longitude = manual[2]
        /\ (manual = None /\ exif_data.latitude # None /\ exif_data.longitude # None
              /\ InLatitudeRange(exif_data.latitude)
              /\ InLongitudeRange(exif_data.longitude))
           => /\ photo_data.error = ""
              /\ photo_data.coordinate_source = "exif"
              /\ photo_data.latitude = exif_data.latitude
              /\ photo_data.longitude = exif_data.longitude
        /\ (manual = None /\ (exif_data.latitude = None \/ exif_data.longitude = None))
           => photo_data.error = "No valid GPS coordinates found"

(* C22: the record persisted for a job carries the coordinates and the    *)
(* provenance tag (coordinate_source: manual or exif) that process_upload *)
(* computed for the submission.  Photo has no coordinate_source field and *)
(* step 4 of _process_photo_job does not pass one: the record has the     *)
(* coordinates and no provenance.                                          *)
C22_ProvenanceOnRecord ==
    \A i \in DOMAIN photo_records :
        LET r == photo_records[i]
            jb == pjobs[r.id]
        IN  /\ r.latitude = jb.latitude
            /\ r.longitude = jb.longitude
            /\ jb.coordinate_source \in {"manual", "exif"}
            /\ "coordinate_source" \in DOMAIN r
            /\ r.coordinate_source = jb.coordinate_source

(* C23: the second pass of extract_exif_data only fills in the GPS        *)
(* coordinates the first pass missed: coordinates found by the first pass *)
(* are returned as they are, and when the second pass supplies them,      *)
(* every other field the first pass found (camera make, camera settings,  *)
(* capture time) is returned as the first pass found it.  The merge is    *)
(* exif_data.update(exifread_data), which replaces camera make, camera    *)
(* model and capture time by what the second reader returned.             *)
C23_SecondaryFillsGpsOnly ==
    Extracted =>
        LET pil_data == upload.pil_data
            exif_data == upload.exif_data
        IN
        /\ (pil_data.latitude # None /\ pil_data.longitude # None)
           => /\ exif_data.latitude = pil_data.latitude
              /\ exif_data.longitude = pil_data.longitude
        /\ (exif_data.latitude # pil_data.latitude
              \/ exif_data.longitude # pil_data.longitude)
           => /\ pil_data.camera_make # "None"
                 => exif_data.camera_make = pil_data.camera_make
              /\ pil_data.camera_settings # "None"
                 => exif_data.camera_settings = pil_data.camera_settings
              /\ pil_data.datetime_taken # "None"
                 => exif_data.datetime_taken = pil_data.datetime_taken

(***************************************************************************)
(*                 PROPERTIES: DEDUPLICATION AND RECORDS                   *)
(***************************************************************************)

(* The positions of the records with content hash h. *)
RecordsWithHash(h) == {i \in DOMAIN photo_records : photo_records[i].hash_md5 = h}

RecordsOf(j) == {i \in DOMAIN photo_records : photo_records[i].id = j}

(* C27: a job that is completed has created exactly one record; a job in  *)
(* any other status (queued, processing, waiting for a retry after a      *)
(* failed attempt, failed) has created none.                               *)
C27_RecordOnlyOnCompletion ==
    \A j \in IngestIds :
        IF pjobs[j].status = "completed"
        THEN Cardinality(RecordsOf(j)) = 1
        ELSE RecordsOf(j) = {}

(* C27 witness: one job completed on a retry, after a failed attempt, and *)
(* another one failed after its last attempt; there is one record.        *)
C27_Witness ==
    \E j, k \in IngestIds :
        /\ pjobs[j].status = "completed"
        /\ pjobs[j].failures > 0
        /\ pjobs[k].status = "failed"
        /\ Len(photo_records) = 1
        /\ photo_records[1].id = j

(* Job j has ended. *)
Ended(j) == pjobs[j].status \in {"completed", "failed"}

(* C30: with the worker running, every job on the ingestion queue         *)
(* eventually is completed or failed, whatever steps fail; a job that has *)
(* ended stays as it is and is never on the queue again; and from some    *)
(* point on the queue is empty and the worker idle.                        *)
C30_QueueDrains ==
    /\ \A j \in IngestIds : InQueue(j) ~> Ended(j)
    /\ \A j \in IngestIds : [](Ended(j) => [](Ended(j) /\ ~InQueue(j)))
    /\ <>[](processing_queue = <<>> /\ worker.pc = "idle")

(* C30 witness: a job has failed on its third attempt, another one has    *)
(* completed after a failed attempt, and the queue is empty again.        *)
C30_Witness ==
    \E j, k \in IngestIds :
        /\ pjobs[j].status = "failed"
        /\ pjobs[j].attempts = max_retries
        /\ pjobs[k].status = "completed"
        /\ pjobs[k].attempts = 2
        /\ processing_queue = <<>>
        /\ worker.pc = "idle"

(* The jobs an attempt of which is running or waiting for its retry. *)
InAttempt == {j \in IngestIds : pjobs[j].status = "processing"}
                 \cup (IF worker.pc = "backoff" THEN {worker.job} ELSE {})

(* C35: at most one ingestion job is being processed or waiting out its   *)
(* backoff, and it is the worker's; while a job waits out its backoff no  *)
(* job leaves the queue and no attempt is started (a step can only add a  *)
(* submission to the queue, or end the wait by putting the job back).     *)
C35_BackoffBlocksWorker ==
    /\ [](Cardinality(InAttempt) <= 1 /\ InAttempt \subseteq {worker.job})
    /\ [][worker.pc = "backoff" =>
            /\ \A j \in IngestIds :
                   /\ InQueue(j) => j \in Range(processing_queue')
                   /\ pjobs'[j].attempts = pjobs[j].attempts
                   /\ pjobs'[j].status = "processing" => pjobs[j].status = "processing"
            /\ worker'.pc \in {"backoff", "idle"}
            /\ worker'.pc = "idle" =>
                   processing_queue' = Append(processing_queue, worker.job)]_vars

(* C35 witness: a job waits out its backoff while another job is queued   *)
(* behind it.                                                              *)
C35_Witness ==
    /\ worker.pc = "backoff"
    /\ pjobs[worker.job].status = "retry"
    /\ processing_queue # <<>>
    /\ \E j \in Range(processing_queue) : pjobs[j].status = "pending"

(***************************************************************************)
(*                  PROPERTIES: EXPORT ASSEMBLY AND SWEEP                  *)
(***************************************************************************)

(* The generator of job embeds photos: KMZ and ZIP when the job asks for  *)
(* it, PHOTOS_ONLY always.                                                 *)
EmbedsPhotos(job) ==
    \/ job.export_type = "photos"
    \/ job.export_type \in {"kmz", "zip"} /\ job.include_photos_in_kmz

(* entries holds exactly the photos whose position is not in fails (the   *)
(* photos of a job are distinct).                                          *)
EmbedsAllBut(entries, photos, fails) ==
    /\ Len(entries) = Cardinality({i \in DOMAIN photos : i \notin fails})
    /\ \A i \in DOMAIN photos :
           i \notin fails <=> \E k \in DOMAIN entries : entries[k] = photos[i]

(* C25: when a KMZ, ZIP or PHOTOS_ONLY file is assembled and the fetches  *)
(* of any subset of the photos fail, every photo whose fetch succeeded is *)
(* embedded, and the job gets the status it gets when no fetch fails: a   *)
(* fetch failure never makes it failed.                                    *)
C25_FetchFailureSkipped ==
    [][\A fails \in SUBSET (1..2), io_error \in BOOLEAN :
          LET j == consumer.job
              job == ejobs[j]
              photos == fetched(consumer.photos, job.photo_ids[consumer.idx])
          IN  (fetch_last(fails, io_error) /\ photos # <<>> /\ EmbedsPhotos(job))
              => /\ ejobs'[j].status =
                        generate_export(j, job, photos, {}, io_error).job.status
                 /\ ejobs'[j].status \in {"completed", "failed"}
                 /\ job.export_type \in {"kmz", "zip"} =>
                        (ejobs'[j].status = "failed" <=> io_error)
                 /\ ~io_error => EmbedsAllBut(files'[j].photos, photos, fails)]_vars

(* C25 witness: a ZIP job over p2 and p1, both still stored, completed    *)
(* although the fetch of p2 failed; its file holds p1 only.                *)
C25_Witness ==
    \E j \in ExportIds :
        /\ ejobs[j].status = "completed"
        /\ ejobs[j].export_type = "zip"
        /\ ejobs[j].photo_ids = <<"p2", "p1">>
        /\ db_photos = PhotoIds
        /\ j \in DOMAIN files
        /\ files[j].photos = <<"p1">>

(* The jobs whose record the expiry sweep has removed. *)
Swept == {j \in 1..n_ejobs : j \notin active_jobs}

(* C29: no output file of a job exists once the expiry sweep has removed  *)
(* the job's record.  The sweep removes only the file at job.file_path at *)
(* the time it runs: a file written after the sweep by a generation that  *)
(* was in flight, and the temporary file of a job that failed (its        *)
(* file_path is None), stay.                                               *)
C29_NoFileAfterSweep == \A j \in Swept : j \notin DOMAIN files

(* Export job j has ended. *)
ExportEnded(j) == ejobs[j].status \in {"completed", "failed", "cancelled"}

(* C31: with the consumer running, every export job that is stored and    *)
(* has not ended eventually ends (completed, failed or cancelled), unless *)
(* the sweep removes its record first.                                     *)
C31_EveryExportJobEnds ==
    \A j \in ExportIds :
        (j \in active_jobs /\ ejobs[j].status \in {"pending", "queued", "processing"})
        ~> (ExportEnded(j) \/ j \notin active_jobs)

(* C31 witness: two jobs were created; one has completed and the other    *)
(* has failed, both still stored, and the consumer is idle again.         *)
C31_Witness ==
    /\ active_jobs = {1, 2}
    /\ ejobs[1].status = "completed"
    /\ ejobs[2].status = "failed"
    /\ job_queue = <<>>
    /\ consumer.pc = "idle"

(* The ids that are not in active_jobs: never given to a job, or of a    *)
(* job the sweep has removed.                                              *)
NotFound == ExportIds \ active_jobs

(* C34: for an id that is not in active_jobs get_job_status returns None, *)
(* cancel_job returns False and get_export_file returns None, none of     *)
(* them raises, and the call of cancel_job changes nothing.                *)
C34_UnknownJobId ==
    /\ [](\A job_id \in NotFound :
              /\ get_job_status(job_id) = None
              /\ cancel_job_result(job_id) = FALSE
              /\ get_export_file(job_id) = "None")
    /\ [][\A job_id \in NotFound : cancel_job(job_id) => UNCHANGED vars]_vars

(* C34 witness: the sweep has removed the record of a job that is being   *)
(* generated, a status in which cancel_job would cancel a stored job.     *)
C34_Witness ==
    \E job_id \in NotFound :
        /\ job_id <= n_ejobs
        /\ ejobs[job_id].status = "processing"
        /\ consumer.job = job_id

(* The number of photos of the job whose download succeeded. *)
FetchedPhotos == Cardinality({i \in DOMAIN archive.photos : i \notin archive.fails})

(* C36: a KMZ and a ZIP archive hold one photo file for each photo whose  *)
(* fetch succeeded, each under its own name, also when two of the photos  *)
(* have the same original filename or the same safe filename.  The KMZ    *)
(* generator writes the photos into one directory by safe filename, so of *)
(* photos with the same safe filename only the last is in the archive;    *)
(* the ZIP generator adds several entries of one name.                     *)
C36_OneEntryPerPhoto ==
    archive # None =>
        /\ archive.kmz # None
           => Cardinality(archive.kmz.files) = FetchedPhotos
        /\ archive.zip # None
           => /\ Len(archive.zip.entries) = FetchedPhotos
              /\ \A i, k \in DOMAIN archive.zip.entries :
                     i # k => archive.zip.entries[i].name # archive.zip.entries[k].name

(* The calendar date of photo. *)
DateOf(photo) ==
    <<archive.timestamp[photo].year, archive.timestamp[photo].month,
      archive.timestamp[photo].day>>

(* Date a is before date b. *)
Before(a, b) ==
    \/ a[1] < b[1]
    \/ a[1] = b[1] /\ a[2] < b[2]
    \/ a[1] = b[1] /\ a[2] = b[2] /\ a[3] < b[3]

(* The position of photo in the input. *)
InputPosition(photo) == CHOOSE i \in DOMAIN archive.photos : archive.photos[i] = photo

(* C37: the document has exactly one Placemark for each photo; photos are *)
(* in the same folder iff they have the same capture date, so there is    *)
(* one folder per date; a folder that comes earlier holds an earlier      *)
(* date; inside a folder the photos are in input order.                    *)
C37_FoldersByDate ==
    (archive # None /\ archive.kml # None) =>
        LET folders == archive.kml.folders
            Places(photo) ==
                {<<n, i>> \in (DOMAIN folders) \X (1..3) :
                    i <= Len(folders[n].placemarks)
                        /\ folders[n].placemarks[i] = photo}
        IN
        /\ \A photo \in Range(archive.photos) : Cardinality(Places(photo)) = 1
        /\ \A n \in DOMAIN folders :
               /\ folders[n].placemarks # <<>>
               /\ Range(folders[n].placemarks) \subseteq Range(archive.photos)
        /\ Len(folders) = Cardinality({DateOf(photo) : photo \in Range(archive.photos)})
        /\ \A n, m \in DOMAIN folders :
               \A a \in Range(folders[n].placemarks), b \in Range(folders[m].placemarks) :
                   /\ n = m <=> DateOf(a) = DateOf(b)
                   /\ n < m => Before(DateOf(a), DateOf(b))
        /\ \A n \in DOMAIN folders :
               \A i, k \in DOMAIN folders[n].placemarks :
                   i < k => InputPosition(folders[n].placemarks[i])
                               < InputPosition(folders[n].placemarks[k])

(* C37 witness: of three photos the first and the third were taken on     *)
(* 2024-01-10, the first later in the day, and the second on 2024-01-02:  *)
(* the second photo's folder comes first, and the other folder holds the  *)
(* first photo and then the third.                                         *)
C37_Witness ==
    /\ archive # None
    /\ archive.kml # None
    /\ archive.photos = <<"p1", "p2", "p3">>
    /\ archive.timestamp["p1"] = Timestamp(2024, 1, 10, 15)
    /\ archive.timestamp["p2"] = Timestamp(2024, 1, 2, 9)
    /\ archive.timestamp["p3"] = Timestamp(2024, 1, 10, 9)
    /\ Len(archive.kml.folders) = 2
    /\ archive.kml.folders[1].placemarks = <<"p2">>
    /\ archive.kml.folders[2].placemarks = <<"p1", "p3">>

(* The characters of the alphabet that are not a letter, a digit, a dot, *)
(* a hyphen or an underscore.                                              *)
Unsafe == {" ", "/", "@"}

(* C38: the safe filename of a filename that is not empty has the same    *)
(* length, with "_" at the positions of the unsafe characters and the     *)
(* input's character everywhere else, so it holds no unsafe character;    *)
(* the empty filename gives photo.jpg; sanitizing the result again gives  *)
(* the result; and the sanitizer of the export service and that of the    *)
(* KMZ generator return the same.                                          *)
C38_SafeFilename ==
    (archive # None /\ archive.export_service # None) =>
        LET filename == archive.filename
            safe_filename == archive.export_service
        IN
        /\ archive.kmz_generator = safe_filename
        /\ filename = <<>> =>
               safe_filename = <<"p", "h", "o", "t", "o", ".", "j", "p", "g">>
        /\ filename # <<>> =>
               /\ Len(safe_filename) = Len(filename)
               /\ \A i \in DOMAIN filename :
                      safe_filename[i] = IF filename[i] \in Unsafe THEN "_"
                                         ELSE filename[i]
        /\ \A i \in DOMAIN safe_filename : safe_filename[i] \notin Unsafe
        /\ archive.twice # None => archive.twice = safe_filename

(* C38 witness: "a/@" was sanitized to "a__" by both, and again to "a__". *)
C38_Witness ==
    /\ archive # None
    /\ archive.filename = <<"a", "/", "@">>
    /\ archive.export_service = <<"a", "_", "_">>
    /\ archive.kmz_generator = <<"a", "_", "_">>
    /\ archive.twice = <<"a", "_", "_">>

(***************************************************************************)
(*               PROPERTIES: GPS CONVERSION AND TIMESTAMP                  *)
(***************************************************************************)

(* 3600 * (deg + min/60 + sec/3600) of a tag with whole degrees, minutes  *)
(* and seconds, negated iff the reference is one of negative.              *)
SignedSeconds(tag, negative) ==
    LET seconds == 3600 * tag.dms[1].num + 60 * tag.dms[2].num + tag.dms[3].num IN
    IF tag.ref \in negative THEN -seconds ELSE seconds

(* value is seconds/3600, written with a denominator 3600 * k. *)
IsDecimal(value, seconds) ==
    /\ value # None
    /\ \E k \in 1..60 : value.den = 3600 * k /\ value.num = seconds * k

(* a and b are the same number, written with the same denominator. *)
SameDecimal(a, b) == a # None /\ b # None /\ a.den = b.den /\ a.num = b.num

(* C26: each extraction pass that reads a GPS tag returns deg + min/60 +  *)
(* sec/3600, negated iff the reference is S (latitude) or W (longitude);  *)
(* (40, 30, 0, N) gives 40.5 and (40, 30, 0, S) gives -40.5; when both    *)
(* passes read the same tag they return the same value.                    *)
C26_DmsToDecimal ==
    Extracted =>
        LET file == upload.file
            pil_read == file.pil = "exif"
            exifread_read == upload.exifread_data # None /\ upload.exifread_data.keys
        IN
        /\ (pil_read /\ file.GPSLatitude # NoTag)
           => IsDecimal(upload.pil_data.latitude, SignedSeconds(file.GPSLatitude, {"S"}))
        /\ (pil_read /\ file.GPSLongitude # NoTag)
           => IsDecimal(upload.pil_data.longitude, SignedSeconds(file.GPSLongitude, {"W"}))
        /\ (exifread_read /\ file.GPSLatitude # NoTag)
           => IsDecimal(upload.exifread_data.latitude,
                        SignedSeconds(file.GPSLatitude, {"S"}))
        /\ (exifread_read /\ file.GPSLongitude # NoTag)
           => IsDecimal(upload.exifread_data.longitude,
                        SignedSeconds(file.GPSLongitude, {"W"}))
        /\ (pil_read /\ file.GPSLatitude = GpsTag(40, 30, 0, "N"))
           => FracEq(upload.pil_data.latitude, Frac(81, 2))
        /\ (pil_read /\ file.GPSLatitude = GpsTag(40, 30, 0, "S"))
           => FracEq(upload.pil_data.latitude, Frac(-81, 2))
        /\ (pil_read /\ exifread_read /\ file.GPSLatitude # NoTag)
           => SameDecimal(upload.pil_data.latitude, upload.exifread_data.latitude)
        /\ (pil_read /\ exifread_read /\ file.GPSLongitude # NoTag)
           => SameDecimal(upload.pil_data.longitude, upload.exifread_data.longitude)

(* C26 witness: both passes read (40, 30, 0, S) of a file without a       *)
(* longitude tag, and both return -40.5.                                   *)
C26_Witness ==
    /\ Extracted
    /\ upload.file.GPSLatitude = GpsTag(40, 30, 0, "S")
    /\ upload.file.GPSLongitude = NoTag
    /\ upload.file.pil = "exif"
    /\ upload.exifread_data # None
    /\ upload.exifread_data.keys
    /\ FracEq(upload.pil_data.latitude, Frac(-81, 2))
    /\ FracEq(upload.exifread_data.latitude, Frac(-81, 2))

(* C28: a payload that process_upload returns carries a timestamp that is *)
(* not None: the capture time that extract_exif_data found, or, if it     *)
(* found none, the upload time.  The code takes the upload time only if   *)
(* exif_data lacks the key datetime_taken, which is the case only if both *)
(* readers raised; for an image without a capture time the payload's      *)
(* timestamp is None.                                                      *)
C28_TimestampDefined ==
    (Processed /\ upload.photo_data.error = "") =>
        LET exif_data == extract_exif_data(upload.file) IN
        /\ upload.photo_data.timestamp # "None"
        /\ upload.photo_data.timestamp =
              IF exif_data.keys /\ exif_data.datetime_taken # "None"
              THEN exif_data.datetime_taken
              ELSE "upload_time"

(***************************************************************************)
(*                 PROPERTIES: NORMALIZATION AND THUMBNAILS                *)
(***************************************************************************)

(* Step 1 has run on the payload. *)
Normalized == normalize # None /\ normalize.pc # "step1"

(* The payload is one that step 1 tries to decode and re-encode. *)
ConversionTried(input) ==
    \/ input.mime_type \in {"image/heic", "image/heif"}
    \/ input.file_content.size > 10 * 1024 * 1024

(* C32: _convert_image_format returns and does not raise; when decoding   *)
(* or re-encoding fails it returns converted = false with the content,    *)
(* MIME type and filename it was given and an error, and the job goes on  *)
(* to the upload step with the payload it had.                             *)
C32_NormalizeNeverRaises ==
    Normalized =>
        LET input == normalize.input
            processed_content == normalize.processed_content
        IN
        /\ ~processed_content.raises
        /\ normalize.pc # "except"
        /\ (ConversionTried(input) /\ normalize.pillow # "ok")
           => /\ ~processed_content.converted
              /\ processed_content.content = input.file_content
              /\ processed_content.mime_type = input.mime_type
              /\ processed_content.filename = input.filename
              /\ processed_content.error # "None"
              /\ normalize.photo_data = input

(* C32 witness: Image.open raised on a HEIC payload, which went on to the *)
(* upload step as it was.                                                  *)
C32_Witness ==
    /\ normalize # None
    /\ normalize.pc = "upload"
    /\ normalize.input.mime_type = "image/heic"
    /\ normalize.pillow = "open_raises"
    /\ normalize.processed_content.error = "open_raises"
    /\ normalize.photo_data = normalize.input

(* C33: thumbnails are requested iff the normalized payload is not larger *)
(* than 10 MB, the size above which step 1 optimizes an image, so that a  *)
(* payload of exactly 10 MB gets thumbnails.  The code requests them only *)
(* for a payload strictly smaller than 10 MB.                              *)
C33_ThumbnailThreshold ==
    (normalize # None /\ normalize.pc = "upload") =>
        (normalize.generate_thumbnails
            <=> normalize.photo_data.file_content.size <= 10 * 1024 * 1024)
====
